---- MODULE Spec2Model ----
(***************************************************************************)
(* TaskMCP: the per-workspace task store (workspace_manager.py), the       *)
(* protocol-server tools (mcp_server.py) and the web handlers (app.py).    *)
(*                                                                         *)
(* A workspace store is one SQLite file.  A row of its tasks table is a    *)
(* record [id, task, done, parent_id, position]; the columns comments,     *)
(* color and board_* are written by no operation modelled here except as   *)
(* the task text is, and are left out.  The current_task table holds at    *)
(* most one row and is modelled as the set of its task_id values.          *)
(***************************************************************************)
EXTENDS Integers, Sequences, FiniteSets, TLC

(***************************************************************************)
(* Bounds                                                                  *)
(***************************************************************************)
\* AUTOINCREMENT ids handed out per workspace store
MaxTasks == 3

\* ids handed out per store where two workspaces are in play
MaxWsTasks == 2

\* ids handed out where tasks are only added, deleted and re-parented
MaxChildTasks == 4

\* the lowest ids, which a re-parenting session names as the new parent
MaxParents == 2

\* ids handed out per store where every mutating operation is in play
MaxSignalTasks == 1

\* tool calls in the larger of the two responses a provider asks with
MaxBatch == 3

\* handlers that run side by side
MaxThreads == 2

\* names a category's index holds
MaxListed == 2

\* chats of the Telegram front-end
MaxChats == 2

\* text messages handled in one run
MaxTurns == 2

\* text messages handled in a run of the gated chat
MaxGateTurns == 1

\* dump files written in one run
MaxDumps == 1

\* Telegram users writing to the bot
MaxUsers == 3

\* Telegram user ids
UserIds == 1..MaxUsers

\* responses asking for tools in one turn of the bot
MaxRounds == 2

\* SQL NULL in the parent_id column (ids start at 1)
NULL == 0

\* task texts the callers send; the empty text is what POST /add rejects
Titles == {"A", "B"}
OneTitle == {"A"}
EmptyTitle == ""

\* workspace names as character sequences, so validation reads characters
DEFAULT_WORKSPACE == <<"d", "e", "f", "a", "u", "l", "t">>
TestWorkspace == <<"t", "-", "w">>
BadName == <<"a", " ">>
NoName == <<>>
NameInputs == {DEFAULT_WORKSPACE, TestWorkspace, BadName, NoName}

\* a name that is no valid workspace name and is the path of default.db
Here == <<".", "/">>
AliasName == Here \o DEFAULT_WORKSPACE
PathInputs == NameInputs \cup {AliasName}

AlNum == {"a", "d", "e", "f", "l", "t", "u", "w"}

\* str.isalnum() or c in ('_', '-') for every character of a non-empty name
validate_workspace_name(workspace_name) ==
    /\ Len(workspace_name) > 0
    /\ \A i \in 1..Len(workspace_name) :
          workspace_name[i] \in AlNum \cup {"_", "-"}

\* the names that can ever back a store file
Workspaces == {n \in NameInputs : validate_workspace_name(n)}

VARIABLES
    stores,     \* workspace name -> store file [file, tasks, seq, current]
    cur,        \* current_workspace of workspace_config.json
    last,       \* the last call and its response
    agent,      \* one run_agent call: its place, response and history
    bot,        \* the Telegram front end: allowlist, batch state, outbox
    tg,         \* the Telegram front end: histories, languages, dumps, turns
    registry,   \* the ToolRegistry singleton: _tools and _categories
    threads     \* handlers running side by side: each one's place and locals

vars == <<stores, cur, last, agent, bot, tg, registry, threads>>

\* what the store and workspace operations leave alone
others == <<agent, bot, tg, registry, threads>>

\* what the agent's steps leave alone
aside == <<tg, registry, threads>>

\* what the steps of a handler running beside others leave alone
beside == <<agent, bot, tg, registry>>

(***************************************************************************)
(* The store file                                                          *)
(***************************************************************************)
NoFile == [file |-> "absent", tasks |-> {}, seq |-> 0, current |-> {}]

\* CREATE TABLE IF NOT EXISTS tasks / current_task
init_db(db) ==
    IF db.file = "schema" THEN db
    ELSE [file |-> "schema", tasks |-> {}, seq |-> 0, current |-> {}]

\* sqlite3.connect creates a missing file, without any table
connect(db) ==
    IF db.file = "absent" THEN [db EXCEPT !.file = "empty"] ELSE db

HasSchema(db) == db.file = "schema"

get_current_workspace == cur

\* an optional argument is the empty set (None) or a singleton
None == {}
Some(x) == {x}
TheValue(opt) == CHOOSE x \in opt : TRUE

\* get_db opening the default store whatever the current workspace is
get_db_of_default(workspace_name) == DEFAULT_WORKSPACE

\* the workspace whose store get_db(workspace_name) opens
get_db(workspace_name) ==
    IF workspace_name = None THEN get_current_workspace
    ELSE TheValue(workspace_name)

(***************************************************************************)
(* Queries on the tasks table T                                            *)
(***************************************************************************)
Ids(T) == {t.id : t \in T}

\* SELECT * FROM tasks WHERE id = ?  (fetchone)
_get_task_info(T, task_id) == {t \in T : t.id = task_id}

RowOf(T, task_id) == CHOOSE t \in T : t.id = task_id

\* the sibling group: WHERE parent_id IS ?
Group(T, parent_id) == {t \in T : t.parent_id = parent_id}

MaxOf(S) == CHOOSE m \in S : \A x \in S : x <= m

\* SELECT COALESCE(MAX(position), -1) + 1 FROM tasks WHERE parent_id IS ?
NextPosition(T, parent_id) ==
    LET ps == {t.position : t \in Group(T, parent_id)}
    IN  IF ps = {} THEN 0 ELSE MaxOf(ps) + 1

\* (result['max_pos'] or -1) + 1 : Python's `or` takes -1 for None and for 0
WebNextPosition(T, parent_id) ==
    LET ps == {t.position : t \in Group(T, parent_id)}
    IN  IF ps = {} THEN 0
        ELSE IF MaxOf(ps) = 0 THEN 0
        ELSE MaxOf(ps) + 1

NewRow(id, task, parent_id, position) ==
    [id |-> id, task |-> task, done |-> FALSE, color |-> "",
     parent_id |-> parent_id, position |-> position]

(***************************************************************************)
(* The response of a call                                                  *)
(***************************************************************************)
Resp(op, id, arg, ret, out, sig) ==
    [op |-> op, id |-> id, arg |-> arg, ret |-> ret, out |-> out, sig |-> sig]

\* every statement of a handler fails on a store without tables
NoTable(op, id, arg, web) ==
    Resp(op, id, arg, IF web THEN "500" ELSE "OperationalError", <<>>, <<>>)

TasksUpdated == <<"tasks_updated">>

\* one handler run against the store of workspace ws: r is the handler's
\* outcome [db, resp] on a store that has its tables
Run(ws, r, failed) ==
    /\ stores' = [stores EXCEPT ![ws] =
                     IF HasSchema(stores[ws]) THEN r.db ELSE connect(stores[ws])]
    /\ last' = IF HasSchema(stores[ws]) THEN r.resp ELSE failed
    /\ UNCHANGED <<cur, others>>

(***************************************************************************)
(* mcp_server.py: adding                                                   *)
(***************************************************************************)
_add_task_impl(db, op, task, parent_id) ==
    IF parent_id # NULL /\ _get_task_info(db.tasks, parent_id) = {}
    THEN [db |-> db,
          resp |-> Resp(op, 0, parent_id, "Error: Parent task does not exist",
                        <<>>, <<>>)]
    ELSE LET position == NextPosition(db.tasks, parent_id)
             task_id == db.seq + 1
         IN  [db |-> [db EXCEPT
                        !.tasks = @ \cup {NewRow(task_id, task, parent_id, position)},
                        !.seq = task_id],
              resp |-> Resp(op, task_id, parent_id, "Added task", <<>>, TasksUpdated)]

mcp_add_task(task) ==
    LET ws == get_db(None)
    IN  Run(ws, _add_task_impl(stores[ws], "add_task", task, NULL),
            NoTable("add_task", 0, NULL, FALSE))

mcp_add_task_with_parent(task, parent_id) ==
    LET ws == get_db(None)
    IN  Run(ws, _add_task_impl(stores[ws], "add_task_with_parent", task, parent_id),
            NoTable("add_task_with_parent", 0, parent_id, FALSE))

(***************************************************************************)
(* mcp_server.py: moving                                                   *)
(***************************************************************************)
\* UPDATE tasks SET position = position + d
\*   WHERE parent_id IS ? AND position >= lo AND position <= hi
ShiftRange(T, parent_id, lo, hi, d) ==
    {IF t.parent_id = parent_id /\ t.position >= lo /\ t.position <= hi
       THEN [t EXCEPT !.position = @ + d] ELSE t : t \in T}

\* UPDATE tasks SET position = position + d
\*   WHERE parent_id IS ? AND position >= lo
ShiftFrom(T, parent_id, lo, d) ==
    {IF t.parent_id = parent_id /\ t.position >= lo
       THEN [t EXCEPT !.position = @ + d] ELSE t : t \in T}

\* the shift with the sibling at the target position left where it is when
\* moving up
_shift_positions_up_exclusive(T, old_parent_id, old_position, new_parent_id, new_position) ==
    IF old_parent_id = new_parent_id
    THEN IF new_position > old_position
         THEN [tasks |-> ShiftRange(T, old_parent_id, old_position + 1,
                                    new_position, -1),
               new_position |-> new_position - 1]
         ELSE IF new_position < old_position
         THEN [tasks |-> ShiftRange(T, old_parent_id, new_position + 1,
                                    old_position - 1, 1),
               new_position |-> new_position]
         ELSE [tasks |-> T, new_position |-> new_position]
    ELSE LET closed == ShiftFrom(T, old_parent_id, old_position + 1, -1)
         IN  [tasks |-> ShiftFrom(closed, new_parent_id, new_position, 1),
              new_position |-> new_position]

\* the shift that leaves the gap in the old parent open
_shift_positions_gap_left(T, old_parent_id, old_position, new_parent_id, new_position) ==
    IF old_parent_id = new_parent_id
    THEN IF new_position > old_position
         THEN [tasks |-> ShiftRange(T, old_parent_id, old_position + 1,
                                    new_position, -1),
               new_position |-> new_position - 1]
         ELSE IF new_position < old_position
         THEN [tasks |-> ShiftRange(T, old_parent_id, new_position,
                                    old_position - 1, 1),
               new_position |-> new_position]
         ELSE [tasks |-> T, new_position |-> new_position]
    ELSE LET closed == T
         IN  [tasks |-> ShiftFrom(closed, new_parent_id, new_position, 1),
              new_position |-> new_position]

\* returns the table after the shifts and the (possibly adjusted) new position
_shift_positions_for_move(T, old_parent_id, old_position, new_parent_id, new_position) ==
    IF old_parent_id = new_parent_id
    THEN IF new_position > old_position
         THEN [tasks |-> ShiftRange(T, old_parent_id, old_position + 1,
                                    new_position, -1),
               new_position |-> new_position - 1]
         ELSE IF new_position < old_position
         THEN [tasks |-> ShiftRange(T, old_parent_id, new_position,
                                    old_position - 1, 1),
               new_position |-> new_position]
         ELSE [tasks |-> T, new_position |-> new_position]
    ELSE LET closed == ShiftFrom(T, old_parent_id, old_position + 1, -1)
         IN  [tasks |-> ShiftFrom(closed, new_parent_id, new_position, 1),
              new_position |-> new_position]

\* UPDATE tasks SET parent_id = ?, position = ? WHERE id = ?
_update_task_position(T, task_id, new_parent_id, new_position) ==
    {IF t.id = task_id
       THEN [t EXCEPT !.parent_id = new_parent_id, !.position = new_position]
       ELSE t : t \in T}

\* the shift, then the update of the moved row
Reposition(T, task, new_parent_id, new_position) ==
    LET s == _shift_positions_for_move(T, task.parent_id, task.position,
                                       new_parent_id, new_position)
    IN  [tasks |-> _update_task_position(s.tasks, task.id, new_parent_id,
                                         s.new_position),
         new_position |-> s.new_position]

NotFound(db, op, id, arg) ==
    [db |-> db, resp |-> Resp(op, id, arg, "Error: Task not found", <<>>, <<>>)]

move_task_as_child_impl(db, task_id, as_child_of) ==
    IF _get_task_info(db.tasks, task_id) = {}
    THEN NotFound(db, "move_task_as_child", task_id, as_child_of)
    ELSE IF as_child_of = task_id
    THEN [db |-> db,
          resp |-> Resp("move_task_as_child", task_id, as_child_of,
                        "Error: Cannot move task to be its own child", <<>>, <<>>)]
    ELSE IF _get_task_info(db.tasks, as_child_of) = {}
    THEN [db |-> db,
          resp |-> Resp("move_task_as_child", task_id, as_child_of,
                        "Error: Parent task not found", <<>>, <<>>)]
    ELSE LET m == Reposition(db.tasks, RowOf(db.tasks, task_id), as_child_of,
                             NextPosition(db.tasks, as_child_of))
         IN  [db |-> [db EXCEPT !.tasks = m.tasks],
              resp |-> Resp("move_task_as_child", task_id, as_child_of,
                            "Moved task", <<>>, TasksUpdated)]

move_task_as_child(task_id, as_child_of) ==
    LET ws == get_db(None)
    IN  Run(ws, move_task_as_child_impl(stores[ws], task_id, as_child_of),
            NoTable("move_task_as_child", task_id, as_child_of, FALSE))

move_task_after_impl(db, task_id, after_task_id) ==
    IF _get_task_info(db.tasks, task_id) = {}
    THEN NotFound(db, "move_task_after", task_id, after_task_id)
    ELSE IF _get_task_info(db.tasks, after_task_id) = {}
    THEN NotFound(db, "move_task_after", after_task_id, after_task_id)
    ELSE LET target == RowOf(db.tasks, after_task_id)
             m == Reposition(db.tasks, RowOf(db.tasks, task_id),
                             target.parent_id, target.position + 1)
         IN  [db |-> [db EXCEPT !.tasks = m.tasks],
              resp |-> Resp("move_task_after", task_id, after_task_id,
                            "Moved task", <<>>, TasksUpdated)]

move_task_after(task_id, after_task_id) ==
    LET ws == get_db(None)
    IN  Run(ws, move_task_after_impl(stores[ws], task_id, after_task_id),
            NoTable("move_task_after", task_id, after_task_id, FALSE))

move_task_impl(db, task_id, position) ==
    IF _get_task_info(db.tasks, task_id) = {}
    THEN NotFound(db, "move_task", task_id, position)
    ELSE LET task == RowOf(db.tasks, task_id)
             m == Reposition(db.tasks, task, task.parent_id, position)
         IN  [db |-> [db EXCEPT !.tasks = m.tasks],
              resp |-> Resp("move_task", task_id, position,
                            "Moved task", <<>>, TasksUpdated)]

move_task(task_id, position) ==
    LET ws == get_db(None)
    IN  Run(ws, move_task_impl(stores[ws], task_id, position),
            NoTable("move_task", task_id, position, FALSE))

(***************************************************************************)
(* mcp_server.py: editing, deleting, the current task, diagnostics         *)
(***************************************************************************)
\* comments and color are updated as the text is; only the text is modelled
update_task_impl(db, task_id, task) ==
    IF task = None
    THEN [db |-> db,
          resp |-> Resp("update_task", task_id, 0,
                        "Error: Must provide task, comments, or color to update",
                        <<>>, <<>>)]
    ELSE [db |-> [db EXCEPT !.tasks =
                     {IF t.id = task_id THEN [t EXCEPT !.task = TheValue(task)]
                                        ELSE t : t \in @}],
          resp |-> Resp("update_task", task_id, 0, "Updated task", <<>>, TasksUpdated)]

update_task(task_id, task) ==
    LET ws == get_db(None)
    IN  Run(ws, update_task_impl(stores[ws], task_id, task),
            NoTable("update_task", task_id, 0, FALSE))

\* cursor.fetchone()[0] on no row raises TypeError before the commit
toggle_task_impl(db, task_id) ==
    IF _get_task_info(db.tasks, task_id) = {}
    THEN [db |-> db,
          resp |-> Resp("toggle_task", task_id, 0, "TypeError", <<>>, <<>>)]
    ELSE LET done == ~RowOf(db.tasks, task_id).done
         IN  [db |-> [db EXCEPT !.tasks =
                         {IF t.id = task_id THEN [t EXCEPT !.done = done]
                                            ELSE t : t \in @}],
              resp |-> Resp("toggle_task", task_id, 0,
                            IF done THEN "Task marked as completed"
                                    ELSE "Task marked as incomplete",
                            <<>>, TasksUpdated)]

toggle_task(task_id) ==
    LET ws == get_db(None)
    IN  Run(ws, toggle_task_impl(stores[ws], task_id),
            NoTable("toggle_task", task_id, 0, FALSE))

\* the delete without its first statement: the subtasks stay
mcp_delete_task_row_only(db, task_id) ==
    [db |-> [db EXCEPT !.tasks = {t \in @ : t.id # task_id}],
     resp |-> Resp("delete_task", task_id, 0, "Deleted task and its subtasks",
                   <<>>, TasksUpdated)]

\* the delete that also drops the current_task row naming the deleted task
mcp_delete_task_clearing_current(db, task_id) ==
    LET subtasks_gone == {t \in db.tasks : t.parent_id # task_id}
    IN  [db |-> [db EXCEPT !.tasks = {t \in subtasks_gone : t.id # task_id},
                           !.current = @ \ {task_id}],
         resp |-> Resp("delete_task", task_id, 0, "Deleted task and its subtasks",
                       <<>>, TasksUpdated)]

\* DELETE FROM tasks WHERE parent_id = ? ; DELETE FROM tasks WHERE id = ?
mcp_delete_task_impl(db, task_id) ==
    LET subtasks_gone == {t \in db.tasks : t.parent_id # task_id}
    IN  [db |-> [db EXCEPT !.tasks = {t \in subtasks_gone : t.id # task_id}],
         resp |-> Resp("delete_task", task_id, 0, "Deleted task and its subtasks",
                       <<>>, TasksUpdated)]

mcp_delete_task(task_id) ==
    LET ws == get_db(None)
    IN  Run(ws, mcp_delete_task_impl(stores[ws], task_id),
            NoTable("delete_task", task_id, 0, FALSE))

\* SELECT * FROM tasks WHERE id = ?
get_task_impl(db, task_id) ==
    IF _get_task_info(db.tasks, task_id) = {}
    THEN [db |-> db,
          resp |-> Resp("get_task", task_id, 0, "Task not found", <<>>, <<>>)]
    ELSE [db |-> db,
          resp |-> Resp("get_task", task_id, 0, "Task",
                        <<RowOf(db.tasks, task_id)>>, <<>>)]

get_task(task_id) ==
    LET ws == get_db(None)
    IN  Run(ws, get_task_impl(stores[ws], task_id),
            NoTable("get_task", task_id, 0, FALSE))

\* UPDATE tasks SET color = ? WHERE id = ?
set_color_impl(db, task_id, color) ==
    [db |-> [db EXCEPT !.tasks =
                {IF t.id = task_id THEN [t EXCEPT !.color = color] ELSE t : t \in @}],
     resp |-> Resp("set_color", task_id, 0, "Set color for task", <<>>,
                   TasksUpdated)]

set_color(task_id, color) ==
    LET ws == get_db(None)
    IN  Run(ws, set_color_impl(stores[ws], task_id, color),
            NoTable("set_color", task_id, 0, FALSE))

mcp_set_current_task_impl(db, task_id) ==
    IF _get_task_info(db.tasks, task_id) = {}
    THEN NotFound(db, "set_current_task", task_id, 0)
    ELSE [db |-> [db EXCEPT !.current = {task_id}],
          resp |-> Resp("set_current_task", task_id, 0, "Set task as current task",
                        <<>>, TasksUpdated)]

mcp_set_current_task(task_id) ==
    LET ws == get_db(None)
    IN  Run(ws, mcp_set_current_task_impl(stores[ws], task_id),
            NoTable("set_current_task", task_id, 0, FALSE))

mcp_clear_current_task ==
    LET ws == get_db(None)
    IN  Run(ws, [db |-> [stores[ws] EXCEPT !.current = {}],
                 resp |-> Resp("clear_current_task", 0, 0, "Cleared current task",
                               <<>>, TasksUpdated)],
            NoTable("clear_current_task", 0, 0, FALSE))

get_current_task_impl(db) ==
    IF db.current = {}
    THEN [db |-> db,
          resp |-> Resp("get_current_task", 0, 0, "No current task set", <<>>, <<>>)]
    ELSE LET task_id == TheValue(db.current)
             task == _get_task_info(db.tasks, task_id)
         IN  IF task = {}
             THEN [db |-> db,
                   resp |-> Resp("get_current_task", task_id, 0,
                                 "Current task not found (may have been deleted)",
                                 <<>>, <<>>)]
             ELSE [db |-> db,
                   resp |-> Resp("get_current_task", task_id, 0, "Current Task",
                                 <<TheValue(task)>>, <<>>)]

get_current_task ==
    LET ws == get_db(None)
    IN  Run(ws, get_current_task_impl(stores[ws]),
            NoTable("get_current_task", 0, 0, FALSE))

\* the rows of S in rowid order
RECURSIVE InIdOrder(_)
InIdOrder(S) ==
    IF S = {} THEN <<>>
    ELSE LET first == CHOOSE t \in S : \A u \in S : t.id <= u.id
         IN  <<first>> \o InIdOrder(S \ {first})

\* the loop over tasks_with_parents, appending the rows whose parent_id is
\* not among valid_ids
RECURSIVE Dangling(_, _)
Dangling(tasks_with_parents, valid_ids) ==
    IF tasks_with_parents = <<>> THEN <<>>
    ELSE LET task == Head(tasks_with_parents)
             rest == Dangling(Tail(tasks_with_parents), valid_ids)
         IN  IF task.parent_id \notin valid_ids
             THEN <<[id |-> task.id, task |-> task.task,
                     invalid_parent_id |-> task.parent_id,
                     done |-> task.done]>> \o rest
             ELSE rest

find_dangling_tasks_impl(db) ==
    LET tasks_with_parents == InIdOrder({t \in db.tasks : t.parent_id # NULL})
        valid_ids == {t.id : t \in db.tasks}
        dangling == Dangling(tasks_with_parents, valid_ids)
    IN  [db |-> db,
         resp |-> Resp("find_dangling_tasks", 0, 0,
                       IF dangling = <<>> THEN "No dangling tasks found"
                                          ELSE "Found dangling task(s)",
                       dangling, <<>>)]

find_dangling_tasks ==
    LET ws == get_db(None)
    IN  Run(ws, find_dangling_tasks_impl(stores[ws]),
            NoTable("find_dangling_tasks", 0, 0, FALSE))

(***************************************************************************)
(* app.py: the web handlers on tasks                                       *)
(***************************************************************************)
WebOk(op, id, arg) == Resp(op, id, arg, "success", <<>>, TasksUpdated)

web_add_task_impl(db, task, parent_id) ==
    IF parent_id # NULL /\ _get_task_info(db.tasks, parent_id) = {}
    THEN [db |-> db, resp |-> Resp("POST /add", 0, parent_id, "400", <<>>, <<>>)]
    ELSE LET position == WebNextPosition(db.tasks, parent_id)
             new_id == db.seq + 1
         IN  [db |-> [db EXCEPT
                        !.tasks = @ \cup {NewRow(new_id, task, parent_id, position)},
                        !.seq = new_id],
              resp |-> WebOk("POST /add", new_id, parent_id)]

\* `if not task` answers 400 before the store is opened
web_add_task(task, parent_id) ==
    LET ws == get_db(None)
    IN  IF task = EmptyTitle
        THEN /\ last' = Resp("POST /add", 0, parent_id, "400", <<>>, <<>>)
             /\ UNCHANGED <<stores, cur, others>>
        ELSE Run(ws, web_add_task_impl(stores[ws], task, parent_id),
                 NoTable("POST /add", 0, parent_id, TRUE))

web_edit_task_impl(db, id, task) ==
    [db |-> [db EXCEPT !.tasks =
                {IF t.id = id /\ task # None THEN [t EXCEPT !.task = TheValue(task)]
                                             ELSE t : t \in @}],
     resp |-> WebOk("POST /edit", id, 0)]

web_edit_task(id, task) ==
    LET ws == get_db(None)
    IN  Run(ws, web_edit_task_impl(stores[ws], id, task),
            NoTable("POST /edit", id, 0, TRUE))

web_toggle_task_impl(db, id) ==
    [db |-> [db EXCEPT !.tasks =
                {IF t.id = id THEN [t EXCEPT !.done = ~t.done] ELSE t : t \in @}],
     resp |-> WebOk("GET /toggle", id, 0)]

web_toggle_task(id) ==
    LET ws == get_db(None)
    IN  Run(ws, web_toggle_task_impl(stores[ws], id),
            NoTable("GET /toggle", id, 0, TRUE))

\* delete_recursive(task_id): the children first, each with its own
\* SELECT, then the row.  active holds the ids of the calls in progress: a
\* call for an id of that set never returns, and Python ends it with a
\* RecursionError.
RECURSIVE delete_recursive(_, _, _)
RECURSIVE delete_children(_, _, _)
delete_recursive(T, task_id, active) ==
    IF task_id \in active
    THEN [tasks |-> T, raised |-> TRUE]
    ELSE LET children == InIdOrder({t \in T : t.parent_id = task_id})
             r == delete_children(T, children, active \cup {task_id})
         IN  IF r.raised THEN r
             ELSE [tasks |-> {t \in r.tasks : t.id # task_id}, raised |-> FALSE]

delete_children(T, children, active) ==
    IF children = <<>>
    THEN [tasks |-> T, raised |-> FALSE]
    ELSE LET r == delete_recursive(T, Head(children).id, active)
         IN  IF r.raised THEN r
             ELSE delete_children(r.tasks, Tail(children), active)

\* an exception leaves the transaction uncommitted
web_delete_task_impl(db, id) ==
    LET r == delete_recursive(db.tasks, id, {})
    IN  IF r.raised
        THEN [db |-> db, resp |-> Resp("GET /delete", id, 0, "500", <<>>, <<>>)]
        ELSE [db |-> [db EXCEPT !.tasks = r.tasks],
              resp |-> WebOk("GET /delete", id, 0)]

web_delete_task(id) ==
    LET ws == get_db(None)
    IN  Run(ws, web_delete_task_impl(stores[ws], id),
            NoTable("GET /delete", id, 0, TRUE))

web_set_current_task(task_id) ==
    LET ws == get_db(None)
    IN  Run(ws, [db |-> [stores[ws] EXCEPT !.current = {task_id}],
                 resp |-> WebOk("POST /set_current", task_id, 0)],
            NoTable("POST /set_current", task_id, 0, TRUE))

web_clear_current_task ==
    LET ws == get_db(None)
    IN  Run(ws, [db |-> [stores[ws] EXCEPT !.current = {}],
                 resp |-> WebOk("POST /clear_current", 0, 0)],
            NoTable("POST /clear_current", 0, 0, TRUE))

\* UPDATE tasks SET position = ?, parent_id = ? WHERE id = ?, one statement
\* per entry of updates, in order
RECURSIVE ApplyUpdates(_, _)
ApplyUpdates(T, updates) ==
    IF updates = <<>> THEN T
    ELSE LET update == Head(updates)
         IN  ApplyUpdates({IF t.id = update.id
                             THEN [t EXCEPT !.position = update.position,
                                            !.parent_id = update.parent_id]
                             ELSE t : t \in T},
                          Tail(updates))

web_reorder_tasks(updates) ==
    LET ws == get_db(None)
    IN  Run(ws, [db |-> [stores[ws] EXCEPT !.tasks = ApplyUpdates(@, updates)],
                 resp |-> WebOk("POST /reorder", 0, 0)],
            NoTable("POST /reorder", 0, 0, TRUE))

(***************************************************************************)
(* Workspaces: switching and creating                                      *)
(***************************************************************************)
\* the file os.path.join(WORKSPACES_DIR, name + '.db') names, as the name of
\* the workspace it backs: the file system drops leading "./" components
RECURSIVE get_workspace_db_path(_)
get_workspace_db_path(workspace_name) ==
    IF Len(workspace_name) >= 2 /\ SubSeq(workspace_name, 1, 2) = Here
    THEN get_workspace_db_path(SubSeq(workspace_name, 3, Len(workspace_name)))
    ELSE workspace_name

\* os.path.exists(get_workspace_db_path(name))
Exists(workspace_name) ==
    LET db_path == get_workspace_db_path(workspace_name)
    IN  db_path \in Workspaces /\ stores[db_path].file # "absent"

WorkspaceChanged == <<"workspace_changed">>

\* set_current_workspace(name); init_db(name); the two broadcasts
web_switch_workspace(workspace_name) ==
    IF workspace_name = NoName \/ ~validate_workspace_name(workspace_name)
    THEN /\ last' = Resp("POST /api/workspace/switch", 0, workspace_name, "400",
                         <<>>, <<>>)
         /\ UNCHANGED <<stores, cur, others>>
    ELSE /\ cur' = workspace_name
         /\ stores' = [stores EXCEPT ![workspace_name] = init_db(@)]
         /\ last' = Resp("POST /api/workspace/switch", 0, workspace_name, "success",
                         <<>>, TasksUpdated \o WorkspaceChanged)
         /\ UNCHANGED others

web_create_workspace(workspace_name) ==
    IF workspace_name = NoName \/ ~validate_workspace_name(workspace_name)
       \/ Exists(workspace_name)
    THEN /\ last' = Resp("POST /api/workspace/create", 0, workspace_name, "400",
                         <<>>, <<>>)
         /\ UNCHANGED <<stores, cur, others>>
    ELSE /\ stores' = [stores EXCEPT ![workspace_name] = init_db(@)]
         /\ last' = Resp("POST /api/workspace/create", 0, workspace_name, "success",
                         <<>>, <<>>)
         /\ UNCHANGED <<cur, others>>

\* init_db if the file is missing, then the wrapper set_current_workspace:
\* the pointer, init_db again, "workspace changed"; then "tasks updated"
mcp_switch_workspace(workspace_name) ==
    IF ~validate_workspace_name(workspace_name)
    THEN /\ last' = Resp("switch_workspace", 0, workspace_name,
                         "Error: Invalid workspace name", <<>>, <<>>)
         /\ UNCHANGED <<stores, cur, others>>
    ELSE /\ cur' = workspace_name
         /\ stores' = [stores EXCEPT ![workspace_name] = init_db(@)]
         /\ last' = Resp("switch_workspace", 0, workspace_name, "Switched to workspace",
                         <<>>, WorkspaceChanged \o TasksUpdated)
         /\ UNCHANGED others

mcp_create_workspace(workspace_name) ==
    IF ~validate_workspace_name(workspace_name)
    THEN /\ last' = Resp("create_workspace", 0, workspace_name,
                         "Error: Invalid workspace name", <<>>, <<>>)
         /\ UNCHANGED <<stores, cur, others>>
    ELSE IF Exists(workspace_name)
    THEN /\ last' = Resp("create_workspace", 0, workspace_name,
                         "Error: Workspace already exists", <<>>, <<>>)
         /\ UNCHANGED <<stores, cur, others>>
    ELSE /\ stores' = [stores EXCEPT ![workspace_name] = init_db(@)]
         /\ last' = Resp("create_workspace", 0, workspace_name, "Created workspace",
                         <<>>, <<>>)
         /\ UNCHANGED <<cur, others>>

(***************************************************************************)
(* Workspaces: deleting and renaming                                       *)
(***************************************************************************)
\* the name is compared with the pointer, then the file is removed; the
\* name is not validated
mcp_delete_workspace(workspace_name) ==
    IF workspace_name = get_current_workspace
    THEN /\ last' = Resp("delete_workspace", 0, workspace_name,
                         "Error: Cannot delete current workspace", <<>>, <<>>)
         /\ UNCHANGED <<stores, cur, others>>
    ELSE IF ~Exists(workspace_name)
    THEN /\ last' = Resp("delete_workspace", 0, workspace_name,
                         "Error: Workspace not found", <<>>, <<>>)
         /\ UNCHANGED <<stores, cur, others>>
    ELSE /\ stores' = [stores EXCEPT
                          ![get_workspace_db_path(workspace_name)] = NoFile]
         /\ last' = Resp("delete_workspace", 0, workspace_name,
                         "Deleted workspace", <<>>, <<>>)
         /\ UNCHANGED <<cur, others>>

web_delete_workspace(workspace_name) ==
    IF workspace_name = NoName \/ workspace_name = get_current_workspace
    THEN /\ last' = Resp("POST /api/workspace/delete", 0, workspace_name, "400",
                         <<>>, <<>>)
         /\ UNCHANGED <<stores, cur, others>>
    ELSE IF ~Exists(workspace_name)
    THEN /\ last' = Resp("POST /api/workspace/delete", 0, workspace_name, "404",
                         <<>>, <<>>)
         /\ UNCHANGED <<stores, cur, others>>
    ELSE /\ stores' = [stores EXCEPT
                          ![get_workspace_db_path(workspace_name)] = NoFile]
         /\ last' = Resp("POST /api/workspace/delete", 0, workspace_name,
                         "success", <<>>, <<>>)
         /\ UNCHANGED <<cur, others>>

\* the copying rename: the old file stays
Renamed_keeping_old(old_name, new_name) ==
    [stores EXCEPT ![new_name] = stores[get_workspace_db_path(old_name)]]

\* os.rename(old_path, new_path): new_name is validated, old_name is not
Renamed(old_name, new_name) ==
    [stores EXCEPT ![get_workspace_db_path(old_name)] = NoFile,
                   ![new_name] = stores[get_workspace_db_path(old_name)]]

\* the wrapper set_current_workspace runs when old_name is the pointer: the
\* pointer, init_db, "workspace changed"; "tasks updated" follows always
mcp_rename_workspace(old_name, new_name) ==
    IF ~validate_workspace_name(new_name)
    THEN /\ last' = Resp("rename_workspace", old_name, new_name,
                         "Error: Invalid workspace name", <<>>, <<>>)
         /\ UNCHANGED <<stores, cur, others>>
    ELSE IF ~Exists(old_name)
    THEN /\ last' = Resp("rename_workspace", old_name, new_name,
                         "Error: Workspace not found", <<>>, <<>>)
         /\ UNCHANGED <<stores, cur, others>>
    ELSE IF Exists(new_name)
    THEN /\ last' = Resp("rename_workspace", old_name, new_name,
                         "Error: Workspace already exists", <<>>, <<>>)
         /\ UNCHANGED <<stores, cur, others>>
    ELSE IF old_name = get_current_workspace
    THEN /\ cur' = new_name
         /\ stores' = [Renamed(old_name, new_name) EXCEPT ![new_name] = init_db(@)]
         /\ last' = Resp("rename_workspace", old_name, new_name,
                         "Renamed workspace", <<>>, WorkspaceChanged \o TasksUpdated)
         /\ UNCHANGED others
    ELSE /\ stores' = Renamed(old_name, new_name)
         /\ last' = Resp("rename_workspace", old_name, new_name,
                         "Renamed workspace", <<>>, TasksUpdated)
         /\ UNCHANGED <<cur, others>>

\* the pointer follows when old_name is the pointer; one broadcast,
\* 'workspace_changed'
web_rename_workspace(old_name, new_name) ==
    IF old_name = NoName \/ new_name = NoName
       \/ ~validate_workspace_name(new_name)
    THEN /\ last' = Resp("POST /api/workspace/rename", old_name, new_name, "400",
                         <<>>, <<>>)
         /\ UNCHANGED <<stores, cur, others>>
    ELSE IF ~Exists(old_name)
    THEN /\ last' = Resp("POST /api/workspace/rename", old_name, new_name, "404",
                         <<>>, <<>>)
         /\ UNCHANGED <<stores, cur, others>>
    ELSE IF Exists(new_name)
    THEN /\ last' = Resp("POST /api/workspace/rename", old_name, new_name, "400",
                         <<>>, <<>>)
         /\ UNCHANGED <<stores, cur, others>>
    ELSE /\ stores' = Renamed(old_name, new_name)
         /\ cur' = IF old_name = get_current_workspace THEN new_name ELSE cur
         /\ last' = Resp("POST /api/workspace/rename", old_name, new_name,
                         "success", <<>>, WorkspaceChanged)
         /\ UNCHANGED others

(***************************************************************************)
(* model_providers: the response of a chat call                            *)
(***************************************************************************)
\* ToolCall(name, arguments, tool_call_id); arguments "bad" stands for
\* arguments the called function raises on
ToolCall(name, arguments, tool_call_id) ==
    [name |-> name, arguments |-> arguments, id |-> tool_call_id]

\* content None and content '' are both the empty text
ModelResponse(content, tool_calls) ==
    [content |-> content, tool_calls |-> tool_calls]

NoResponse == ModelResponse("", <<>>)

has_tool_calls(response) == Len(response.tool_calls) > 0

Message(role, content, tool_call_id, tool_calls) ==
    [role |-> role, content |-> content, tool_call_id |-> tool_call_id,
     tool_calls |-> tool_calls]

\* {'role': 'assistant', 'content': content or '', 'tool_calls': [...]}
model_dump(response) ==
    Message("assistant", response.content, 0, response.tool_calls)

ProviderFailed == "Error: Failed to call Ollama model"

\* OllamaProvider.chat / OpenAICompatibleProvider.chat: a failed client call
\* is answered by an error response, a reply is converted
chat(outcome) ==
    IF outcome.kind = "client_error" THEN ModelResponse(ProviderFailed, <<>>)
    ELSE ModelResponse(outcome.content, outcome.tool_calls)

(***************************************************************************)
(* task_telegram.py: the notifications of one turn                         *)
(***************************************************************************)
\* the batch tools with toggle_task left out
BATCH_TOOLS_without_toggle ==
    {"add_task", "add_task_with_parent", "update_task", "delete_task",
     "set_color"}

BATCH_TOOLS ==
    {"add_task", "add_task_with_parent", "update_task", "delete_task",
     "toggle_task", "set_color"}

NoTool == ""

NoBatch ==
    [current_tool |-> NoTool, count |-> 0, results |-> <<>>, started |-> FALSE,
     message_future |-> 0]

\* what becomes of a message handed to async_notify: it is delivered and
\* its id comes back, the id comes back as None, or the wait times out
Fates == {"delivered", "none", "timeout"}

\* asyncio.run_coroutine_threadsafe(async_notify_callback(text), loop): the
\* message joins the chat's outbox, its future is its place there
Sent(b, text, tool, count, fate) ==
    [b EXCEPT !.outbox = Append(@, [text |-> text, tool |-> tool, count |-> count,
                                    fate |-> fate, edits |-> 0])]

\* safe_edit_message_text on the message of a future
Edited(b, future, text, count) ==
    [b EXCEPT !.outbox[future] = [@ EXCEPT !.text = text, !.count = count,
                                           !.edits = @ + 1]]

send_batch_notification(b, fate) ==
    IF b.batch_state.current_tool # NoTool /\ b.batch_state.count > 0
    THEN LET tool_name == b.batch_state.current_tool
             count == b.batch_state.count
             future == b.batch_state.message_future
             told == IF future # 0 /\ b.outbox[future].fate = "delivered"
                     THEN Edited(b, future, "Completed", count)
                     ELSE Sent(b, "Completed", tool_name, count, fate)
         IN  [told EXCEPT !.batch_state = NoBatch]
    ELSE b

\* a start message for every call of a batch tool
on_tool_call_every_time(b, tool_name, fate) ==
    LET flushed == IF /\ b.batch_state.current_tool # NoTool
                      /\ b.batch_state.current_tool # tool_name
                   THEN send_batch_notification(b, fate) ELSE b
    IN  IF tool_name \in BATCH_TOOLS
        THEN LET begun ==
                   [Sent(flushed, "Starting batch", tool_name, 0, fate)
                      EXCEPT !.batch_state =
                         [current_tool |-> tool_name,
                          count |-> flushed.batch_state.count,
                          results |-> flushed.batch_state.results,
                          started |-> TRUE,
                          message_future |-> Len(flushed.outbox) + 1]]
             IN  [begun EXCEPT !.batch_state.count = @ + 1]
        ELSE LET alone == IF flushed.batch_state.current_tool # NoTool
                          THEN send_batch_notification(flushed, fate) ELSE flushed
             IN  [Sent(alone, "Calling tool", tool_name, 0, fate)
                    EXCEPT !.tool_message_futures =
                       {f \in @ : f[1] # tool_name}
                          \cup {<<tool_name, Len(alone.outbox) + 1>>}]

on_tool_call(b, tool_name, fate) ==
    LET flushed == IF /\ b.batch_state.current_tool # NoTool
                      /\ b.batch_state.current_tool # tool_name
                   THEN send_batch_notification(b, fate) ELSE b
    IN  IF tool_name \in BATCH_TOOLS
        THEN LET begun ==
                   IF ~flushed.batch_state.started
                   THEN [Sent(flushed, "Starting batch", tool_name, 0, fate)
                           EXCEPT !.batch_state =
                              [current_tool |-> tool_name, count |-> 0,
                               results |-> <<>>, started |-> TRUE,
                               message_future |-> Len(flushed.outbox) + 1]]
                   ELSE flushed
             IN  [begun EXCEPT !.batch_state.count = @ + 1]
        ELSE LET alone == IF flushed.batch_state.current_tool # NoTool
                          THEN send_batch_notification(flushed, fate) ELSE flushed
             IN  [Sent(alone, "Calling tool", tool_name, 0, fate)
                    EXCEPT !.tool_message_futures =
                       {f \in @ : f[1] # tool_name}
                          \cup {<<tool_name, Len(alone.outbox) + 1>>}]

on_tool_call_after(b, tool_name, result, fate) ==
    IF tool_name \in BATCH_TOOLS
    THEN IF b.batch_state.current_tool = tool_name
         THEN [b EXCEPT !.batch_state.results = Append(@, result)]
         ELSE b
    ELSE LET waiting == {f \in b.tool_message_futures : f[1] = tool_name}
             rest == b.tool_message_futures \ waiting
         IN  IF waiting = {}
             THEN Sent(b, "Tool execution completed", tool_name, 0, fate)
             ELSE LET future == (CHOOSE f \in waiting : TRUE)[2]
                      told ==
                        CASE b.outbox[future].fate = "delivered" ->
                               Edited(b, future, "Tool execution completed", 0)
                          [] b.outbox[future].fate = "none" -> b
                          [] OTHER ->
                               Sent(b, "Tool execution completed", tool_name, 0, fate)
                  IN  [told EXCEPT !.tool_message_futures = rest]

(***************************************************************************)
(* task_telegram.py: the allowlist                                         *)
(***************************************************************************)
\* an entry of the list that is blank, and one that int() rejects
Blank == -1
NoNumber == 0

\* TELEGRAM_ALLOWED_USER_IDS, stripped, as the list split(',') makes of it:
\* the empty string (one blank entry) means no allowlist, and so does an
\* entry int() rejects; blank entries are skipped
allowed_user_ids(entries) ==
    IF entries = <<Blank>> \/ \E i \in 1..Len(entries) : entries[i] = NoNumber
    THEN None
    ELSE Some({entries[i] : i \in 1..Len(entries)} \ {Blank})

\* is_user_allowed logging each refusal
is_user_allowed_logging_each(b, user_id) ==
    IF b.allowed_user_ids = None
    THEN [allowed |-> TRUE, bot |-> b]
    ELSE IF user_id \in TheValue(b.allowed_user_ids)
    THEN [allowed |-> TRUE, bot |-> b]
    ELSE [allowed |-> FALSE,
          bot |-> [b EXCEPT !.warnings = Append(@, user_id),
                            !.logged_non_whitelisted_users = @ \cup {user_id}]]

\* is_user_allowed: the answer and the bot after it
is_user_allowed(b, user_id) ==
    IF b.allowed_user_ids = None
    THEN [allowed |-> TRUE, bot |-> b]
    ELSE IF user_id \in TheValue(b.allowed_user_ids)
    THEN [allowed |-> TRUE, bot |-> b]
    ELSE IF user_id \notin b.logged_non_whitelisted_users
    THEN [allowed |-> FALSE,
          bot |-> [b EXCEPT !.warnings = Append(@, user_id),
                            !.logged_non_whitelisted_users = @ \cup {user_id}]]
    ELSE [allowed |-> FALSE, bot |-> b]

\* a handler: the check first, and nothing else for a user it refuses
Handle(command, user_id) ==
    LET checked == is_user_allowed(bot, user_id)
    IN  /\ bot' = [checked.bot EXCEPT
                     !.handled = [command |-> command, user_id |-> user_id,
                                  allowed |-> checked.allowed]]
        /\ UNCHANGED <<stores, cur, last, agent, aside>>

Bot(ids) ==
    [allowed_user_ids |-> ids, logged_non_whitelisted_users |-> {},
     warnings |-> <<>>,
     handled |-> [command |-> "", user_id |-> 0, allowed |-> FALSE],
     batch_state |-> NoBatch, tool_message_futures |-> {}, outbox |-> <<>>]

(***************************************************************************)
(* task_agent.py: run_agent and process_tool_calls                         *)
(***************************************************************************)
max_iterations == 10

\* the names the dispatcher knows; "nope" is one it does not know
available_functions == {"add_task", "toggle_task", "list_tasks"}

AgentFailed == "Error: Failed to call model"

\* the content of the tool-role message for one call
Execute(call) ==
    IF call.name \notin available_functions THEN "Tool not found"
    ELSE IF call.arguments = "bad" THEN "Error: raised"
    ELSE "output"

Idle ==
    [pc |-> "idle", callbacks |-> FALSE, iteration |-> 0, chats |-> 0,
     response |-> NoResponse, messages |-> <<>>, idx |-> 0, text |-> ""]

\* run_agent returning the model's text as it is
Returned_as_it_is(a) ==
    [a EXCEPT !.pc = "done",
              !.messages = Append(@, model_dump(a.response)),
              !.text = a.response.content]

\* the end of run_agent after the loop: the final response joins the
\* history and its text, or the canned one, is the answer
Returned(a) ==
    [a EXCEPT !.pc = "done",
              !.messages = Append(@, model_dump(a.response)),
              !.text = IF a.response.content # "" THEN a.response.content
                       ELSE "Task completed successfully."]

\* the loop going on while iteration <= max_iterations
LoopHead_one_more(a) ==
    IF has_tool_calls(a.response) /\ a.iteration <= max_iterations
    THEN [a EXCEPT !.pc = "for", !.iteration = @ + 1, !.idx = 1,
                   !.messages = Append(@, model_dump(a.response))]
    ELSE Returned(a)

\* the head of the while loop on a fresh response: another round, or out
LoopHead(a) ==
    IF has_tool_calls(a.response) /\ a.iteration < max_iterations
    THEN [a EXCEPT !.pc = "for", !.iteration = @ + 1, !.idx = 1,
                   !.messages = Append(@, model_dump(a.response))]
    ELSE Returned(a)

\* run_agent_for_telegram after run_agent: the batch still open is told
Finished(a, b, fate) ==
    IF a.pc = "done" /\ a.callbacks /\ b.batch_state.current_tool # NoTool
    THEN send_batch_notification(b, fate) ELSE b

\* run_agent up to its first chat call; callbacks are the two observers of
\* run_agent_for_telegram, the console passes none
run_agent(callbacks) ==
    /\ agent.pc = "idle"
    /\ agent' = [Idle EXCEPT
                   !.pc = "chat", !.callbacks = callbacks,
                   !.messages = <<Message("system", "prompt", 0, <<>>),
                                  Message("user", "query", 0, <<>>)>>]
    /\ bot' = [bot EXCEPT !.batch_state = NoBatch, !.tool_message_futures = {}]
    /\ UNCHANGED <<stores, cur, last, aside>>

\* the first provider.chat of run_agent and what follows it
initial_chat(outcome, fate) ==
    /\ agent.pc = "chat"
    /\ LET called == [agent EXCEPT !.chats = @ + 1]
           a == IF outcome.kind = "raises"
                THEN [called EXCEPT !.pc = "done", !.text = AgentFailed]
                ELSE LET answered == [called EXCEPT !.response = chat(outcome)]
                     IN  IF has_tool_calls(answered.response)
                         THEN LoopHead(answered)
                         ELSE [answered EXCEPT
                                 !.pc = "done",
                                 !.messages = Append(@, model_dump(answered.response)),
                                 !.text = IF answered.response.content # ""
                                          THEN answered.response.content
                                          ELSE "I understand."]
       IN  /\ agent' = a
           /\ bot' = Finished(a, bot, fate)
    /\ UNCHANGED <<stores, cur, last, aside>>

\* a round that a failing call ends
tool_call_step_stopping(fate) ==
    /\ agent.pc = "for"
    /\ LET tool_call == agent.response.tool_calls[agent.idx]
           output == Execute(tool_call)
           last_one == \/ agent.idx = Len(agent.response.tool_calls)
                       \/ output # "output"
       IN  /\ agent' = [agent EXCEPT
                          !.messages = Append(@, Message("tool", output,
                                                         tool_call.id, <<>>)),
                          !.idx = @ + 1,
                          !.pc = IF last_one THEN "chat_again" ELSE "for"]
           /\ bot' = bot
    /\ UNCHANGED <<stores, cur, last, aside>>

\* one pass of `for tool_call in response.tool_calls`
tool_call_step(fate) ==
    /\ agent.pc = "for"
    /\ LET tool_call == agent.response.tool_calls[agent.idx]
           output == Execute(tool_call)
           tool_message == Message("tool", output, tool_call.id, <<>>)
           last_one == agent.idx = Len(agent.response.tool_calls)
       IN  /\ agent' = [agent EXCEPT
                          !.messages = Append(@, tool_message),
                          !.idx = @ + 1,
                          !.pc = IF last_one THEN "chat_again" ELSE "for"]
           /\ bot' = IF agent.callbacks
                     THEN on_tool_call_after(
                              on_tool_call(bot, tool_call.name, fate),
                              tool_call.name, output, fate)
                     ELSE bot
    /\ UNCHANGED <<stores, cur, last, aside>>

\* the provider.chat that ends a round: a raise ends the loop with the
\* response of before, a response goes to the head of the loop
followup_chat(outcome, fate) ==
    /\ agent.pc = "chat_again"
    /\ LET called == [agent EXCEPT !.chats = @ + 1]
           a == IF outcome.kind = "raises"
                THEN Returned([called EXCEPT
                                 !.messages = Append(@,
                                    Message("assistant", "Error during model call",
                                            0, <<>>))])
                ELSE LoopHead([called EXCEPT !.response = chat(outcome)])
       IN  /\ agent' = a
           /\ bot' = Finished(a, bot, fate)
    /\ UNCHANGED <<stores, cur, last, aside>>

(***************************************************************************)
(* task_telegram.py: histories, language preferences, dumps                *)
(***************************************************************************)
\* the chats the updates come from
ChatIds == 1..MaxChats

\* the handlers that can be underway at once
TurnIds == 1..MaxThreads

\* user_conversations.get(chat_id) of a chat with no key, or with the None
\* handle_message puts there: every reader treats the two alike
NoHistory == 0

\* user_config.get_user_language of a user with no entry
NoLanguage == ""

\* two of the codes of user_config.SUPPORTED_LANGUAGES
SUPPORTED_LANGUAGES == {"zh", "en"}

\* what can follow /language: nothing, clear, a supported code, another word
LanguageArgs == {"", "clear", "xx"} \cup SUPPORTED_LANGUAGES

\* a handler slot with no message being handled
NoTurn ==
    [pc |-> "idle", user_id |-> 0, chat_id |-> 0, messages |-> NoHistory,
     query |-> 0]

\* the module after import and an empty user_config.json: no history, no
\* list object, no preference, no dump file, no handler underway.  A
\* history is a reference into lists, so that two turns can hold the same
\* list object; queries holds the chat of each text message taken up
NoChats ==
    [user_conversations |-> [c \in ChatIds |-> NoHistory],
     lists |-> <<>>,
     user_config |-> [u \in UserIds |-> NoLanguage],
     dumps |-> <<>>,
     turns |-> [t \in TurnIds |-> NoTurn],
     queries |-> <<>>]

get_user_language(t, user_id) == t.user_config[user_id]

\* the enforcement sentence of a language, nothing for no language
get_language_prompt(language) ==
    IF language = NoLanguage THEN <<>> ELSE <<"IMPORTANT", language>>

\* run_agent's system message: the opening of the prompt, the enforcement
\* sentence if there is one, the rest of the prompt
SystemMessage(language) ==
    [role |-> "system",
     content |-> <<"opening">> \o get_language_prompt(language) \o <<"rest">>]

UserMessage(query) == [role |-> "user", content |-> <<"query", query>>]

AssistantMessage(query) == [role |-> "assistant", content |-> <<"reply", query>>]

\* the bot after a handler's check
Checked(checked, command, user_id) ==
    [checked.bot EXCEPT
       !.handled = [command |-> command, user_id |-> user_id,
                    allowed |-> checked.allowed]]

start_command(user_id) == Handle("/start", user_id)

help_command(user_id) == Handle("/help", user_id)

\* /clear: the chat's key is deleted
clear_command(user_id, chat_id) ==
    LET checked == is_user_allowed(bot, user_id)
    IN  /\ bot' = Checked(checked, "/clear", user_id)
        /\ tg' = IF checked.allowed
                 THEN [tg EXCEPT !.user_conversations[chat_id] = NoHistory]
                 ELSE tg
        /\ UNCHANGED <<stores, cur, last, agent, registry, threads>>

language_command_unchecked(user_id, arg) ==
    /\ bot' = Checked([allowed |-> TRUE, bot |-> bot], "/language", user_id)
    /\ tg' = IF arg = "clear"
             THEN [tg EXCEPT !.user_config[user_id] = NoLanguage]
             ELSE IF arg \in SUPPORTED_LANGUAGES
             THEN [tg EXCEPT !.user_config[user_id] = arg]
             ELSE tg
    /\ UNCHANGED <<stores, cur, last, agent, registry, threads>>

\* /language: clear removes the preference, a supported code stores it,
\* anything else only lists the languages
language_command(user_id, arg) ==
    LET checked == is_user_allowed(bot, user_id)
    IN  /\ bot' = Checked(checked, "/language", user_id)
        /\ tg' = IF ~checked.allowed
                 THEN tg
                 ELSE IF arg = "clear"
                 THEN [tg EXCEPT !.user_config[user_id] = NoLanguage]
                 ELSE IF arg \in SUPPORTED_LANGUAGES
                 THEN [tg EXCEPT !.user_config[user_id] = arg]
                 ELSE tg
        /\ UNCHANGED <<stores, cur, last, agent, registry, threads>>

\* /dump: the chat's history goes to a file of the dumps folder
dump_command(user_id, chat_id) ==
    LET checked == is_user_allowed(bot, user_id)
        messages == tg.user_conversations[chat_id]
        conversation_count ==
            IF messages = NoHistory THEN 0 ELSE Len(tg.lists[messages])
    IN  /\ bot' = Checked(checked, "/dump", user_id)
        /\ tg' = IF checked.allowed
                 THEN [tg EXCEPT !.dumps =
                         Append(@, [user_id |-> user_id, chat_id |-> chat_id,
                                    total_messages |-> conversation_count])]
                 ELSE tg
        /\ UNCHANGED <<stores, cur, last, agent, registry, threads>>

\* handle_message up to the executor: the check, then the chat's history
\* as it is now goes to the turn
handle_message(turn, user_id, chat_id) ==
    LET checked == is_user_allowed(bot, user_id)
    IN  /\ tg.turns[turn].pc = "idle"
        /\ bot' = Checked(checked, "message", user_id)
        /\ tg' = IF checked.allowed
                 THEN [tg EXCEPT
                         !.queries = Append(@, chat_id),
                         !.turns[turn] =
                            [pc |-> "run", user_id |-> user_id,
                             chat_id |-> chat_id,
                             messages |-> tg.user_conversations[chat_id],
                             query |-> Len(tg.queries) + 1]]
                 ELSE tg
        /\ UNCHANGED <<stores, cur, last, agent, registry, threads>>

\* run_agent_for_telegram up to the first model call: the user's language
\* is read, a turn with no history makes a new list that starts with the
\* system message, a turn with one keeps the list it was given and puts a
\* system message in front only if there is none, and the user's message
\* is appended to that list
run_agent_for_telegram(turn) ==
    LET t == tg.turns[turn]
        language == get_user_language(tg, t.user_id)
        given == tg.lists[t.messages]
        headed == IF given = <<>> \/ given[1].role # "system"
                  THEN <<SystemMessage(language)>> \o given
                  ELSE given
    IN  /\ t.pc = "run"
        /\ tg' = IF t.messages = NoHistory
                 THEN [tg EXCEPT
                         !.lists = Append(@, <<SystemMessage(language),
                                               UserMessage(t.query)>>),
                         !.turns[turn].messages = Len(tg.lists) + 1,
                         !.turns[turn].pc = "chat"]
                 ELSE [tg EXCEPT
                         !.lists[t.messages] = Append(headed, UserMessage(t.query)),
                         !.turns[turn].pc = "chat"]
        /\ UNCHANGED <<stores, cur, last, agent, bot, registry, threads>>

\* the model's answer is appended to the turn's list
chat_reply(turn) ==
    LET t == tg.turns[turn]
    IN  /\ t.pc = "chat"
        /\ tg' = [tg EXCEPT
                    !.lists[t.messages] = Append(@, AssistantMessage(t.query)),
                    !.turns[turn].pc = "store"]
        /\ UNCHANGED <<stores, cur, last, agent, bot, registry, threads>>

\* handle_message after the executor: the turn's list becomes the chat's
\* history
store_history(turn) ==
    LET t == tg.turns[turn]
    IN  /\ t.pc = "store"
        /\ tg' = [tg EXCEPT
                    !.user_conversations[t.chat_id] = t.messages,
                    !.turns[turn] = NoTurn]
        /\ UNCHANGED <<stores, cur, last, agent, bot, registry, threads>>

(***************************************************************************)
(* tool_registry.py                                                        *)
(***************************************************************************)
\* ToolRegistry.__init__: _tools maps a name to its definition, of which the
\* category is kept; _categories maps a category to the list of its names
ToolRegistry == [tools |-> <<>>, categories |-> <<>>]

\* category None or ''
NoCategory == ""

\* a dictionary without one key
Without(d, key) == [k \in DOMAIN d \ {key} |-> d[k]]

\* d[key] = value
With(d, key, value) == [k \in DOMAIN d \cup {key} |-> IF k = key THEN value ELSE d[k]]

\* list.remove(name): the first occurrence goes
RECURSIVE Remove(_, _)
Remove(list, name) ==
    IF list = <<>> THEN <<>>
    ELSE IF Head(list) = name THEN Tail(list)
    ELSE <<Head(list)>> \o Remove(Tail(list), name)

Names(list) == {list[i] : i \in 1..Len(list)}

\* the body of register's decorator and of register_manual
Registered(r, name, category) ==
    LET tools == With(r.tools, name, category)
    IN  IF category = NoCategory THEN [r EXCEPT !.tools = tools]
        ELSE LET list == IF category \in DOMAIN r.categories
                         THEN r.categories[category] ELSE <<>>
             IN  [r EXCEPT !.tools = tools,
                           !.categories = With(@, category, Append(list, name))]

\* @registry.register(name=..., category=...) applied to a function
register(name, category) ==
    /\ registry' = Registered(registry, name, category)
    /\ last' = Resp("register", 0, 0, "", <<name>>, <<>>)
    /\ UNCHANGED <<stores, cur, agent, bot, tg, threads>>

register_manual(name, category) ==
    /\ registry' = Registered(registry, name, category)
    /\ last' = Resp("register_manual", 0, 0, "", <<name>>, <<>>)
    /\ UNCHANGED <<stores, cur, agent, bot, tg, threads>>

\* the registry after unregister(name) of a registered name
Unregistered(r, name) ==
    LET category == r.tools[name]
        categories ==
          IF category # NoCategory /\ category \in DOMAIN r.categories
          THEN LET list == Remove(r.categories[category], name)
               IN  IF list = <<>> THEN Without(r.categories, category)
                   ELSE With(r.categories, category, list)
          ELSE r.categories
    IN  [tools |-> Without(r.tools, name), categories |-> categories]

unregister(name) ==
    /\ IF name \notin DOMAIN registry.tools
       THEN /\ registry' = registry
            /\ last' = Resp("unregister", 0, 0, "False", <<name>>, <<>>)
       ELSE /\ registry' = Unregistered(registry, name)
            /\ last' = Resp("unregister", 0, 0, "True", <<name>>, <<>>)
    /\ UNCHANGED <<stores, cur, agent, bot, tg, threads>>

clear ==
    /\ registry' = ToolRegistry
    /\ last' = Resp("clear", 0, 0, "", <<>>, <<>>)
    /\ UNCHANGED <<stores, cur, agent, bot, tg, threads>>

get_tools_by_category(r, category) ==
    IF category \in DOMAIN r.categories THEN r.categories[category] ELSE <<>>

get_all_categories(r) == DOMAIN r.categories

(***************************************************************************)
(* Handlers running side by side                                           *)
(***************************************************************************)
ThreadIds == 1..MaxThreads

\* a handler thread that is between two calls
Waiting ==
    [pc |-> "idle", web |-> FALSE, ws |-> <<>>, task |-> "", parent_id |-> NULL,
     position |-> 0, seen |-> 0, task_id |-> 0]

NoThreads == [th \in ThreadIds |-> Waiting]

Free(th) == threads[th].pc \in {"idle", "done"}

\* _add_task_impl / POST /add up to the SELECT of the largest position: the
\* connection opened on the current workspace, the parent looked up, the
\* position computed from the rows as they are now
add_read_max(th, web, task, parent_id) ==
    /\ Free(th)
    /\ LET ws == get_db(None)
           db == stores[ws]
           op == IF web THEN "POST /add" ELSE "add_task"
       IN  IF ~HasSchema(db)
           THEN /\ stores' = [stores EXCEPT ![ws] = connect(@)]
                /\ last' = NoTable(op, 0, parent_id, web)
                /\ threads' = [threads EXCEPT ![th] = Waiting]
           ELSE IF parent_id # NULL /\ _get_task_info(db.tasks, parent_id) = {}
           THEN /\ last' = Resp(op, 0, parent_id,
                                IF web THEN "400"
                                ELSE "Error: Parent task does not exist", <<>>, <<>>)
                /\ threads' = [threads EXCEPT ![th] = Waiting]
                /\ stores' = stores
           ELSE /\ threads' = [threads EXCEPT ![th] =
                                 [pc |-> "insert", web |-> web, ws |-> ws,
                                  task |-> task, parent_id |-> parent_id,
                                  position |->
                                     IF web THEN WebNextPosition(db.tasks, parent_id)
                                     ELSE NextPosition(db.tasks, parent_id),
                                  seen |-> db.seq, task_id |-> 0]]
                /\ UNCHANGED <<stores, last>>
    /\ UNCHANGED <<cur, beside>>

\* the INSERT with the position computed before, and the commit
add_insert(th) ==
    /\ threads[th].pc = "insert"
    /\ LET t == threads[th]
           db == stores[t.ws]
           op == IF t.web THEN "POST /add" ELSE "add_task"
           task_id == db.seq + 1
       IN  IF ~HasSchema(db)
           THEN /\ stores' = [stores EXCEPT ![t.ws] = connect(@)]
                /\ last' = NoTable(op, 0, t.parent_id, t.web)
                /\ threads' = [threads EXCEPT ![th] = Waiting]
           ELSE /\ stores' = [stores EXCEPT ![t.ws] =
                                [@ EXCEPT
                                   !.tasks = @ \cup {NewRow(task_id, t.task,
                                                            t.parent_id, t.position)},
                                   !.seq = task_id]]
                /\ last' = IF t.web THEN WebOk(op, task_id, t.parent_id)
                           ELSE Resp(op, task_id, t.parent_id, "Added task", <<>>,
                                     TasksUpdated)
                /\ threads' = [threads EXCEPT ![th] =
                                 [t EXCEPT !.pc = "done", !.task_id = task_id]]
    /\ UNCHANGED <<cur, beside>>


\* delete_workspace up to os.remove: the name compared with the pointer,
\* the file looked for
delete_check(th, web, workspace_name) ==
    /\ Free(th)
    /\ LET op == IF web THEN "POST /api/workspace/delete" ELSE "delete_workspace"
       IN  IF web /\ workspace_name = NoName
           THEN /\ last' = Resp(op, 0, workspace_name, "400", <<>>, <<>>)
                /\ threads' = [threads EXCEPT ![th] = Waiting]
           ELSE IF workspace_name = get_current_workspace
           THEN /\ last' = Resp(op, 0, workspace_name,
                                IF web THEN "400"
                                ELSE "Error: Cannot delete current workspace",
                                <<>>, <<>>)
                /\ threads' = [threads EXCEPT ![th] = Waiting]
           ELSE IF ~Exists(workspace_name)
           THEN /\ last' = Resp(op, 0, workspace_name,
                                IF web THEN "404" ELSE "Error: Workspace not found",
                                <<>>, <<>>)
                /\ threads' = [threads EXCEPT ![th] = Waiting]
           ELSE /\ threads' = [threads EXCEPT ![th] =
                                 [Waiting EXCEPT !.pc = "remove", !.web = web,
                                                 !.ws = workspace_name]]
                /\ last' = last
    /\ UNCHANGED <<stores, cur, beside>>

\* os.remove(db_path): it raises when the file is gone by now
delete_remove(th) ==
    /\ threads[th].pc = "remove"
    /\ LET t == threads[th]
           op == IF t.web THEN "POST /api/workspace/delete" ELSE "delete_workspace"
           db_path == get_workspace_db_path(t.ws)
       IN  IF stores[db_path].file = "absent"
           THEN /\ last' = Resp(op, 0, t.ws, IF t.web THEN "500" ELSE "FileNotFoundError",
                                <<>>, <<>>)
                /\ stores' = stores
           ELSE /\ stores' = [stores EXCEPT ![db_path] = NoFile]
                /\ last' = Resp(op, 0, t.ws,
                                IF t.web THEN "success" ELSE "Deleted workspace",
                                <<>>, <<>>)
    /\ threads' = [threads EXCEPT ![th] = [@ EXCEPT !.pc = "done"]]
    /\ UNCHANGED <<cur, beside>>

\* switch_workspace up to the write of the pointer: the name validated and,
\* in the protocol server, init_db when the file is missing
switch_validate(th, web, workspace_name) ==
    /\ Free(th)
    /\ LET op == IF web THEN "POST /api/workspace/switch" ELSE "switch_workspace"
       IN  IF ~validate_workspace_name(workspace_name)
           THEN /\ last' = Resp(op, 0, workspace_name,
                                IF web THEN "400" ELSE "Error: Invalid workspace name",
                                <<>>, <<>>)
                /\ threads' = [threads EXCEPT ![th] = Waiting]
                /\ stores' = stores
           ELSE /\ threads' = [threads EXCEPT ![th] =
                                 [Waiting EXCEPT !.pc = "set", !.web = web,
                                                 !.ws = workspace_name]]
                /\ stores' = IF web \/ Exists(workspace_name) THEN stores
                             ELSE [stores EXCEPT ![workspace_name] = init_db(@)]
                /\ last' = last
    /\ UNCHANGED <<cur, beside>>

\* set_current_workspace(workspace_name): the pointer is written
switch_set(th) ==
    /\ threads[th].pc = "set"
    /\ cur' = threads[th].ws
    /\ threads' = [threads EXCEPT ![th] = [@ EXCEPT !.pc = "init"]]
    /\ UNCHANGED <<stores, last, beside>>

\* init_db(workspace_name) and the broadcasts
switch_init(th) ==
    /\ threads[th].pc = "init"
    /\ LET t == threads[th]
       IN  /\ stores' = [stores EXCEPT ![t.ws] = init_db(@)]
           /\ last' = IF t.web
                      THEN Resp("POST /api/workspace/switch", 0, t.ws, "success",
                                <<>>, TasksUpdated \o WorkspaceChanged)
                      ELSE Resp("switch_workspace", 0, t.ws, "Switched to workspace",
                                <<>>, WorkspaceChanged \o TasksUpdated)
    /\ threads' = [threads EXCEPT ![th] = [@ EXCEPT !.pc = "done"]]
    /\ UNCHANGED <<cur, beside>>

(***************************************************************************)
(* Initial states                                                          *)
(***************************************************************************)
Started == Resp("start", 0, 0, "", <<>>, <<>>)

\* app.py run as a program: init_db(get_current_workspace()) on a fresh
\* working directory
InitWeb ==
    /\ cur = DEFAULT_WORKSPACE
    /\ stores = [w \in Workspaces |->
                    IF w = DEFAULT_WORKSPACE THEN init_db(NoFile) ELSE NoFile]
    /\ agent = Idle
    /\ bot = Bot(None)
    /\ tg = NoChats /\ registry = ToolRegistry /\ threads = NoThreads
    /\ last = Started

TaskIds == 1..MaxTasks

\* the AUTOINCREMENT counter of the current store is below n
Fewer(n) == stores[cur].seq < n

\* the ids the current store has handed out so far
Known == 1..stores[cur].seq

\* the tasks table of the current workspace
Tasks == stores[cur].tasks

\* the number of siblings of task_id, itself included
SiblingCount(task_id) ==
    IF task_id \in Ids(Tasks)
    THEN Cardinality(Group(Tasks, RowOf(Tasks, task_id).parent_id))
    ELSE 0

\* a protocol-server session that adds and moves tasks, move_task being
\* given a position among the siblings and move_task_after another task
NextMove ==
    \/ \E task \in OneTitle : Fewer(MaxTasks) /\ mcp_add_task(task)
    \/ \E task \in OneTitle, p \in TaskIds :
          Fewer(MaxTasks) /\ mcp_add_task_with_parent(task, p)
    \/ \E id \in TaskIds, p \in TaskIds : move_task_as_child(id, p)
    \/ \E id \in TaskIds : \E a \in TaskIds \ {id} : move_task_after(id, a)
    \/ \E id \in TaskIds : \E p \in 0..(SiblingCount(id) - 1) : move_task(id, p)

SpecMove == InitWeb /\ [][NextMove]_vars

\* positions a caller may name
Positions == 0..(MaxTasks - 1)

\* adding through both servers, and deleting, which leaves gaps
NextAdd ==
    \/ \E task \in OneTitle : Fewer(MaxTasks) /\ mcp_add_task(task)
    \/ \E task \in OneTitle, p \in TaskIds :
          Fewer(MaxTasks) /\ mcp_add_task_with_parent(task, p)
    \/ \E task \in OneTitle \cup {EmptyTitle}, p \in TaskIds \cup {NULL} :
          Fewer(MaxTasks) /\ web_add_task(task, p)
    \/ \E id \in TaskIds : mcp_delete_task(id)

SpecAdd == InitWeb /\ [][NextAdd]_vars

\* building a hierarchy, deleting through both servers, the current task
NextDelete ==
    \/ \E task \in OneTitle : Fewer(MaxTasks) /\ mcp_add_task(task)
    \/ \E task \in OneTitle, p \in TaskIds :
          Fewer(MaxTasks) /\ mcp_add_task_with_parent(task, p)
    \/ \E id \in TaskIds, p \in TaskIds : move_task_as_child(id, p)
    \/ \E id \in TaskIds : mcp_delete_task(id)
    \/ \E id \in TaskIds : web_delete_task(id)
    \/ \E id \in TaskIds : mcp_set_current_task(id)
    \/ \E id \in TaskIds : web_set_current_task(id)
    \/ mcp_clear_current_task
    \/ web_clear_current_task
    \/ get_current_task
    \/ find_dangling_tasks

SpecDelete == InitWeb /\ [][NextDelete]_vars

\* a protocol-server session that adds, deletes and re-parents tasks, the
\* caller naming ids the store has handed out
\* the tasks a caller of this session names as the new parent
ParentIds == 1..MaxParents

NextChild ==
    \/ \E task \in OneTitle : Fewer(MaxChildTasks) /\ mcp_add_task(task)
    \/ \E task \in OneTitle, p \in ParentIds :
          Fewer(MaxChildTasks) /\ mcp_add_task_with_parent(task, p)
    \/ \E id \in Known : mcp_delete_task(id)
    \/ \E id \in Known, p \in ParentIds : move_task_as_child(id, p)

SpecChild == InitWeb /\ [][NextChild]_vars

\* two workspaces, tasks added, edited and deleted in the current one
NextWs ==
    \/ \E n \in NameInputs : web_switch_workspace(n)
    \/ \E n \in NameInputs : web_create_workspace(n)
    \/ \E n \in NameInputs : mcp_switch_workspace(n)
    \/ \E n \in NameInputs : mcp_create_workspace(n)
    \/ \E task \in OneTitle : Fewer(MaxWsTasks) /\ mcp_add_task(task)
    \/ \E task \in OneTitle \cup {EmptyTitle} :
          Fewer(MaxWsTasks) /\ web_add_task(task, NULL)
    \/ \E id \in 1..MaxWsTasks, task \in {None} \cup {Some(x) : x \in Titles} :
          web_edit_task(id, task)
    \/ \E id \in 1..MaxWsTasks : mcp_delete_task(id)
    \/ \E id \in 1..MaxWsTasks : web_delete_task(id)

SpecWs == InitWeb /\ [][NextWs]_vars

\* the workspaces created, switched to, deleted and renamed through both
\* servers, by names valid and not, with tasks added to the current one
NextAdmin ==
    \/ \E n \in NameInputs : web_switch_workspace(n)
    \/ \E n \in NameInputs : mcp_switch_workspace(n)
    \/ \E n \in NameInputs : web_create_workspace(n)
    \/ \E n \in NameInputs : mcp_create_workspace(n)
    \/ \E n \in PathInputs : web_delete_workspace(n)
    \/ \E n \in PathInputs : mcp_delete_workspace(n)
    \/ \E old \in PathInputs, new \in NameInputs : web_rename_workspace(old, new)
    \/ \E old \in PathInputs, new \in NameInputs : mcp_rename_workspace(old, new)
    \/ \E task \in OneTitle : Fewer(MaxWsTasks) /\ mcp_add_task(task)

SpecAdmin == InitWeb /\ [][NextAdmin]_vars

\* every mutating tool of the protocol server, two ids per store
SignalIds == 1..MaxSignalTasks

NextMcpSignals ==
    \/ \E n \in NameInputs : mcp_switch_workspace(n)
    \/ \E n \in NameInputs : mcp_create_workspace(n)
    \/ \E n \in NameInputs : mcp_delete_workspace(n)
    \/ \E old \in NameInputs, new \in NameInputs : mcp_rename_workspace(old, new)
    \/ \E task \in OneTitle : Fewer(MaxSignalTasks) /\ mcp_add_task(task)
    \/ \E task \in OneTitle, p \in SignalIds :
          Fewer(MaxSignalTasks) /\ mcp_add_task_with_parent(task, p)
    \/ \E id \in SignalIds, task \in {None} \cup {Some(x) : x \in OneTitle} :
          update_task(id, task)
    \/ \E id \in SignalIds : toggle_task(id)
    \/ \E id \in SignalIds : mcp_delete_task(id)
    \/ \E id \in SignalIds : mcp_set_current_task(id)
    \/ mcp_clear_current_task
    \/ \E id \in SignalIds, p \in SignalIds : move_task_as_child(id, p)
    \/ \E id \in SignalIds, a \in SignalIds : move_task_after(id, a)
    \/ \E id \in SignalIds, p \in 0..1 : move_task(id, p)

SpecMcpSignals == InitWeb /\ [][NextMcpSignals]_vars

\* the drag-and-drop batches a page sends: none or one update
Updates ==
    {<<>>} \cup {<<[id |-> id, position |-> p, parent_id |-> parent_id]>> :
                    id \in SignalIds, p \in 0..1, parent_id \in {NULL} \cup SignalIds}

\* every mutating handler of the web server
NextWebSignals ==
    \/ \E n \in NameInputs : web_switch_workspace(n)
    \/ \E n \in NameInputs : web_create_workspace(n)
    \/ \E n \in NameInputs : web_delete_workspace(n)
    \/ \E old \in NameInputs, new \in NameInputs : web_rename_workspace(old, new)
    \/ \E task \in OneTitle \cup {EmptyTitle}, p \in {NULL} \cup SignalIds :
          Fewer(MaxSignalTasks) /\ web_add_task(task, p)
    \/ \E id \in SignalIds, task \in {None} \cup {Some(x) : x \in OneTitle} :
          web_edit_task(id, task)
    \/ \E id \in SignalIds : web_toggle_task(id)
    \/ \E id \in SignalIds : web_delete_task(id)
    \/ \E updates \in Updates : web_reorder_tasks(updates)
    \/ \E id \in SignalIds : web_set_current_task(id)
    \/ web_clear_current_task

SpecWebSignals == InitWeb /\ [][NextWebSignals]_vars

\* the calls of a response asking for n tools: one the dispatcher does not
\* know, one whose function raises, one that runs, and so on
LoopCall(i) ==
    CASE i % 3 = 1 -> ToolCall("nope", "ok", i)
      [] i % 3 = 2 -> ToolCall("toggle_task", "bad", i)
      [] OTHER -> ToolCall("add_task", "ok", i)

LoopCalls(n) == [i \in 1..n |-> LoopCall(i)]

Reply(content, tool_calls) ==
    [kind |-> "reply", content |-> content, tool_calls |-> tool_calls]

\* what a provider does with a chat call: it asks for one tool or for
\* MaxBatch of them, answers with a text or with none, its client fails,
\* or the call raises
LoopOutcomes ==
    {Reply("", <<ToolCall("list_tasks", "ok", 1)>>),
     Reply("Working", LoopCalls(MaxBatch)),
     Reply("", <<>>), Reply("Done", <<>>),
     [kind |-> "client_error"], [kind |-> "raises"]}

\* one run_agent call from the console or from the bot
NextLoop ==
    \/ \E callbacks \in BOOLEAN : run_agent(callbacks)
    \/ \E outcome \in LoopOutcomes : initial_chat(outcome, "delivered")
    \/ tool_call_step("delivered")
    \/ \E outcome \in LoopOutcomes : followup_chat(outcome, "delivered")

\* the call runs on: each step of it is taken once it can be
SpecLoop == InitWeb /\ [][NextLoop]_vars /\ WF_vars(NextLoop)

\* n calls of one tool
SameCalls(name, n) == [i \in 1..n |-> ToolCall(name, "ok", i)]

\* what the provider answers in a turn of the bot: up to MaxRounds
\* responses ask for tools (one tool up to MaxBatch times, or a batch tool
\* and then another tool), the others are the final text
TurnOutcomes ==
    IF agent.chats < MaxRounds
    THEN {Reply("", SameCalls("add_task", n)) : n \in 1..MaxBatch}
         \cup {Reply("", SameCalls("toggle_task", 1)),
               Reply("", SameCalls("list_tasks", 1)),
               Reply("", SameCalls("add_task", MaxBatch - 1)
                           \o <<ToolCall("list_tasks", "ok", MaxBatch)>>),
               Reply("Done", <<>>)}
    ELSE {Reply("Done", <<>>)}

\* one message handled by run_agent_for_telegram, every notification of it
\* meeting one of the fates
NextTurn ==
    \/ run_agent(TRUE)
    \/ \E outcome \in TurnOutcomes, fate \in Fates : initial_chat(outcome, fate)
    \/ \E fate \in Fates : tool_call_step(fate)
    \/ \E outcome \in TurnOutcomes, fate \in Fates : followup_chat(outcome, fate)

SpecTurn == InitWeb /\ [][NextTurn]_vars


\* the values of TELEGRAM_ALLOWED_USER_IDS: one or two entries, each an
\* id, a blank or something that is no number
Environments ==
    LET Entries == UserIds \cup {Blank, NoNumber}
    IN  {<<a>> : a \in Entries} \cup {<<a, b>> : a \in Entries, b \in Entries}

\* task_telegram.py loaded with one of the environments
InitBot ==
    /\ cur = DEFAULT_WORKSPACE
    /\ stores = [w \in Workspaces |->
                    IF w = DEFAULT_WORKSPACE THEN init_db(NoFile) ELSE NoFile]
    /\ agent = Idle
    /\ \E entries \in Environments : bot = Bot(allowed_user_ids(entries))
    /\ tg = NoChats /\ registry = ToolRegistry /\ threads = NoThreads
    /\ last = Started

\* the five commands and the plain message
Commands == {"/start", "/clear", "/help", "/language", "/dump", "message"}

NextAllow == \E command \in Commands, user_id \in UserIds : Handle(command, user_id)

SpecAllow == InitBot /\ [][NextAllow]_vars

\* a group chat every user writes to, listed or not: each command and the text message, one message handled at a time
NextGate ==
    \/ \E user_id \in UserIds : start_command(user_id)
    \/ \E user_id \in UserIds : help_command(user_id)
    \/ \E user_id \in UserIds : clear_command(user_id, 1)
    \/ \E user_id \in UserIds, arg \in {"clear", "zh"} : language_command(user_id, arg)
    \/ \E user_id \in UserIds : Len(tg.dumps) < MaxDumps /\ dump_command(user_id, 1)
    \/ \E user_id \in UserIds : Len(tg.queries) < MaxGateTurns /\ handle_message(1, user_id, 1)
    \/ run_agent_for_telegram(1)
    \/ chat_reply(1)
    \/ store_history(1)

\* task_telegram.py loaded with TELEGRAM_ALLOWED_USER_IDS=1: the first user
\* is listed, the others are not
InitGate ==
    /\ cur = DEFAULT_WORKSPACE
    /\ stores = [w \in Workspaces |->
                    IF w = DEFAULT_WORKSPACE THEN init_db(NoFile) ELSE NoFile]
    /\ agent = Idle
    /\ bot = Bot(allowed_user_ids(<<1>>))
    /\ tg = NoChats /\ registry = ToolRegistry /\ threads = NoThreads
    /\ last = Started

SpecGate == InitGate /\ [][NextGate]_vars

\* users talking to the bot without an allowlist, each in a private chat
\* (whose chat id is the user's id), one message handled at a time; in
\* between they set, clear and ask for their language and clear the history
NextLanguage ==
    \/ \E user_id \in ChatIds, arg \in LanguageArgs : language_command(user_id, arg)
    \/ \E user_id \in ChatIds : clear_command(user_id, user_id)
    \/ \E user_id \in ChatIds :
          Len(tg.queries) < MaxTurns /\ handle_message(1, user_id, user_id)
    \/ run_agent_for_telegram(1)
    \/ chat_reply(1)
    \/ store_history(1)

SpecLanguage == InitWeb /\ [][NextLanguage]_vars

\* two handlers at work on the messages one user sends to the chats
NextTurns ==
    \/ \E turn \in TurnIds, chat_id \in ChatIds :
          Len(tg.queries) < MaxTurns /\ handle_message(turn, 1, chat_id)
    \/ \E turn \in TurnIds : run_agent_for_telegram(turn)
    \/ \E turn \in TurnIds : chat_reply(turn)
    \/ \E turn \in TurnIds : store_history(turn)

SpecTurns == InitWeb /\ [][NextTurns]_vars

\* the ids the calls are made with: one more than can exist
CallIds == 1..(MaxWsTasks + 1)

\* a protocol-server session calling every operation that takes a task id,
\* with ids of tasks that exist, that were deleted and that never existed
NextMissing ==
    \/ \E task \in OneTitle : Fewer(MaxWsTasks) /\ mcp_add_task(task)
    \/ \E id \in CallIds, task \in {Some(x) : x \in Titles} : update_task(id, task)
    \/ \E id \in CallIds : toggle_task(id)
    \/ \E id \in CallIds : mcp_delete_task(id)
    \/ \E id \in CallIds : set_color(id, "red")
    \/ \E id \in CallIds : get_task(id)
    \/ \E id \in CallIds : mcp_set_current_task(id)
    \/ \E id \in CallIds, position \in 0..1 : move_task(id, position)
    \/ \E id \in CallIds, p \in CallIds : move_task_as_child(id, p)
    \/ \E id \in CallIds, a \in CallIds : move_task_after(id, a)

SpecMissing == InitWeb /\ [][NextMissing]_vars

\* mcp_server.py run as a program on a fresh working directory: no store
\* file yet, the pointer at its default
InitMcp ==
    /\ cur = DEFAULT_WORKSPACE
    /\ stores = [w \in Workspaces |-> NoFile]
    /\ agent = Idle
    /\ bot = Bot(None)
    /\ tg = NoChats /\ registry = ToolRegistry /\ threads = NoThreads
    /\ last = Started

\* a protocol-server session from the first call on
NextFresh ==
    \/ \E task \in OneTitle : Fewer(MaxWsTasks) /\ mcp_add_task(task)
    \/ \E task \in OneTitle, p \in 1..MaxWsTasks :
          Fewer(MaxWsTasks) /\ mcp_add_task_with_parent(task, p)
    \/ \E id \in 1..MaxWsTasks : toggle_task(id)
    \/ \E id \in 1..MaxWsTasks : mcp_delete_task(id)
    \/ \E id \in 1..MaxWsTasks : get_task(id)
    \/ \E n \in NameInputs : mcp_switch_workspace(n)
    \/ \E n \in NameInputs : mcp_create_workspace(n)

SpecFresh == InitMcp /\ [][NextFresh]_vars

\* a protocol-server session that builds a tree and moves its tasks by all
\* three move operations
NextTree ==
    \/ \E task \in OneTitle : Fewer(MaxTasks) /\ mcp_add_task(task)
    \/ \E task \in OneTitle, p \in Known :
          Fewer(MaxTasks) /\ mcp_add_task_with_parent(task, p)
    \/ \E id \in Known, p \in Known : move_task_as_child(id, p)
    \/ \E id \in Known, a \in Known : move_task_after(id, a)
    \/ \E id \in Known, position \in Positions : move_task(id, position)

SpecTree == InitWeb /\ [][NextTree]_vars

\* rows handed out and adds under way
Underway == Cardinality({th \in ThreadIds : threads[th].pc = "insert"})

\* web handler threads and the protocol server adding to one workspace,
\* each add in its two steps
NextRace ==
    \/ \E th \in ThreadIds, web \in BOOLEAN, task \in OneTitle, p \in {NULL, 1} :
          /\ stores[cur].seq + Underway < MaxTasks
          /\ add_read_max(th, web, task, p)
    \/ \E th \in ThreadIds : add_insert(th)

SpecRace == InitWeb /\ [][NextRace]_vars

\* the workspaces with a store file
ValidNames == {DEFAULT_WORKSPACE, TestWorkspace}

\* workspaces deleted and switched to by handlers side by side, each in its
\* steps, with tasks added to the current one in between
NextWsRace ==
    \/ \E th \in ThreadIds, web \in BOOLEAN, n \in ValidNames : delete_check(th, web, n)
    \/ \E th \in ThreadIds : delete_remove(th)
    \/ \E th \in ThreadIds, web \in BOOLEAN, n \in ValidNames :
          switch_validate(th, web, n)
    \/ \E th \in ThreadIds : switch_set(th)
    \/ \E th \in ThreadIds : switch_init(th)
    \/ \E task \in OneTitle :
          /\ \A th \in ThreadIds : Free(th)
          /\ Fewer(MaxSignalTasks) /\ mcp_add_task(task)

SpecWsRace == InitWeb /\ [][NextWsRace]_vars

ToolNames == {"get_time", "search"}

Categories == {NoCategory, "time", "web"}

\* room in the index of the category
Room(category) ==
    Len(get_tools_by_category(registry, category)) < MaxListed

\* tools registered, registered again and unregistered in any order
NextRegistry ==
    \/ \E name \in ToolNames, category \in Categories :
          Room(category) /\ register(name, category)
    \/ \E name \in ToolNames, category \in Categories :
          Room(category) /\ register_manual(name, category)
    \/ \E name \in ToolNames : unregister(name)
    \/ clear

SpecRegistry == InitWeb /\ [][NextRegistry]_vars

\* a protocol-server session that adds, deletes and moves tasks freely,
\* the caller naming ids the store has handed out
NextReorder ==
    \/ \E task \in OneTitle : Fewer(MaxTasks) /\ mcp_add_task(task)
    \/ \E task \in OneTitle, p \in Known :
          Fewer(MaxTasks) /\ mcp_add_task_with_parent(task, p)
    \/ \E id \in Known : mcp_delete_task(id)
    \/ \E id \in Known, p \in Positions : move_task(id, p)

SpecReorder == InitWeb /\ [][NextReorder]_vars

\* adding and moving after another task only
NextAfter ==
    \/ \E task \in OneTitle : Fewer(MaxTasks) /\ mcp_add_task(task)
    \/ \E task \in OneTitle, p \in TaskIds :
          Fewer(MaxTasks) /\ mcp_add_task_with_parent(task, p)
    \/ \E id \in TaskIds : \E a \in TaskIds \ {id} : move_task_after(id, a)

SpecAfter == InitWeb /\ [][NextAfter]_vars

(***************************************************************************)
(* Properties                                                              *)
(***************************************************************************)
\* the positions of the group are exactly 0..n-1
Contiguous(T, parent_id) ==
    {t.position : t \in Group(T, parent_id)}
        = 0..(Cardinality(Group(T, parent_id)) - 1)

Succeeded(r) ==
    r.ret \in {"Added task", "success", "Moved task", "Deleted task and its subtasks"}

\* C1: after any sequence of protocol-server add_task, add_task_with_parent,
\* move_task_as_child, move_task_after and move_task calls on an empty
\* workspace, every sibling group, the root group included, has the
\* positions 0..n-1 without duplicates or gaps.
C1_GroupsContiguous ==
    \A parent_id \in {NULL} \cup TaskIds : Contiguous(Tasks, parent_id)

AddOps == {"add_task", "add_task_with_parent", "POST /add"}

\* C2: every successful add, through the protocol server or POST /add, gives
\* the new task the position 1 + the largest position of the tasks already
\* in its sibling group, or 0 when the group is empty.
C2_AddTakesNextPosition ==
    [][(last'.op \in AddOps /\ Succeeded(last'))
         => LET new == RowOf(Tasks', last'.id)
                siblings == Group(Tasks, new.parent_id)
            IN  new.position =
                  IF siblings = {} THEN 0
                  ELSE 1 + MaxOf({t.position : t \in siblings})]_vars
TaskOps ==
    AddOps \cup {"POST /edit", "GET /toggle", "GET /delete", "update_task",
                 "toggle_task", "delete_task"}

\* C3: adding, editing or deleting tasks changes only the store of the
\* current workspace, a successful add puts exactly the one new task into
\* it, and switching or creating workspaces changes the tasks of no store.
C3_WorkspacesIsolated ==
    [][/\ \A w \in Workspaces :
             (w # cur \/ last'.op \notin TaskOps)
                => /\ stores'[w].tasks = stores[w].tasks
                   /\ stores'[w].seq = stores[w].seq
                   /\ stores'[w].current = stores[w].current
       /\ last'.op \in TaskOps => cur' = cur
       /\ (last'.op \in AddOps /\ Succeeded(last'))
             => /\ last'.id \notin Ids(Tasks)
                /\ Tasks' = Tasks \cup {RowOf(Tasks', last'.id)}]_vars

\* the test's scenario: a task in the test workspace, another in default,
\* and default current again after the switch back
C3_Witness ==
    /\ cur = DEFAULT_WORKSPACE
    /\ last.op = "POST /api/workspace/switch" /\ Succeeded(last)
    /\ Cardinality(stores[TestWorkspace].tasks) = 1
    /\ Cardinality(stores[DEFAULT_WORKSPACE].tasks) = 2

\* the tasks of T below task_id at any depth
RECURSIVE Below(_, _)
Below(T, found) ==
    LET more == {t \in T : \E f \in found : t.parent_id = f.id} \cup found
    IN  IF more = found THEN found ELSE Below(T, more)

Descendants(T, task_id) == Below(T, {t \in T : t.parent_id = task_id})

C5_DeleteLeavesNoDescendant ==
    [][(last'.op = "delete_task" /\ Succeeded(last'))
         => Descendants(Tasks, last'.id) \cap Tasks' = {}]_vars

\* C6: GET /delete/<id> removes exactly the task id and every descendant of
\* it, and leaves every other row unchanged.
C6_WebDeleteRemovesSubtree ==
    [][last'.op = "GET /delete"
         => /\ Succeeded(last')
            /\ Tasks' = {t \in Tasks : /\ t.id # last'.id
                                       /\ t \notin Descendants(Tasks, last'.id)}]_vars
\* C7: move_task(id, p) with 0 <= p < the task's position puts the task at
\* p, moves each sibling formerly at a position in [p, old position) up by
\* one, leaves every other row as it is, and a group that was contiguous
\* without duplicates is so afterwards.
C7_MoveTaskEarlier ==
    [][(/\ last'.op = "move_task" /\ Succeeded(last')
        /\ last'.arg < RowOf(Tasks, last'.id).position)
         => LET old == RowOf(Tasks, last'.id)
                p == last'.arg
            IN  /\ Tasks' =
                     {IF t.id = old.id THEN [t EXCEPT !.position = p]
                      ELSE IF /\ t.parent_id = old.parent_id
                              /\ t.position >= p /\ t.position < old.position
                           THEN [t EXCEPT !.position = @ + 1]
                      ELSE t : t \in Tasks}
                /\ Contiguous(Tasks, old.parent_id)
                      => Contiguous(Tasks', old.parent_id)]_vars

\* three root siblings 1, 2, 3 and move_task(3, 0): the order 3, 1, 2
C7_Witness ==
    /\ last.op = "move_task" /\ last.id = 3 /\ last.arg = 0 /\ Succeeded(last)
    /\ Tasks = {NewRow(3, "A", NULL, 0), NewRow(1, "A", NULL, 1),
                NewRow(2, "A", NULL, 2)}

\* a successful move_task_as_child of a task whose parent was not the new one
MovedToOtherParent ==
    /\ last'.op = "move_task_as_child" /\ Succeeded(last')
    /\ RowOf(Tasks, last'.id).parent_id # last'.arg

\* C8 as stated: the task becomes the last child of P2 with the position
\* P2's previous child count, every former sibling under P1 after it moves
\* down by one, keeping P1's children contiguous from 0, and no other task
\* changes.
C8_AsStated ==
    [][MovedToOtherParent
         => LET old == RowOf(Tasks, last'.id)
                P2 == last'.arg
            IN  /\ Tasks' =
                     {IF t.id = old.id
                        THEN [t EXCEPT !.parent_id = P2,
                                       !.position = Cardinality(Group(Tasks, P2))]
                      ELSE IF /\ t.parent_id = old.parent_id
                              /\ t.position > old.position
                           THEN [t EXCEPT !.position = @ - 1]
                      ELSE t : t \in Tasks}
                /\ Contiguous(Tasks, old.parent_id)
                      => Contiguous(Tasks', old.parent_id)]_vars

\* C8 (amended): the task becomes a child of P2 at 1 + the largest position
\* of P2's previous children (0 when it had none), which is P2's previous
\* child count when those were contiguous from 0; every former sibling
\* under P1 with a larger position moves down by one, so that P1's children
\* are contiguous from 0 again if they were before; no other task changes.
C8_MoveAsChild ==
    [][MovedToOtherParent
         => LET old == RowOf(Tasks, last'.id)
                P2 == last'.arg
                children == Group(Tasks, P2)
                target == IF children = {} THEN 0
                          ELSE 1 + MaxOf({t.position : t \in children})
            IN  /\ Tasks' =
                     {IF t.id = old.id
                        THEN [t EXCEPT !.parent_id = P2, !.position = target]
                      ELSE IF /\ t.parent_id = old.parent_id
                              /\ t.position > old.position
                           THEN [t EXCEPT !.position = @ - 1]
                      ELSE t : t \in Tasks}
                /\ Contiguous(Tasks, P2) => target = Cardinality(children)
                /\ Contiguous(Tasks, old.parent_id)
                      => Contiguous(Tasks', old.parent_id)]_vars

\* root tasks 1, 2, 3 and move_task_as_child(2, 1): 2 is the only child of
\* 1 and 3 has moved down to position 1
C8_Witness ==
    /\ last.op = "move_task_as_child" /\ last.id = 2 /\ last.arg = 1
    /\ Succeeded(last)
    /\ Tasks = {NewRow(1, "A", NULL, 0), NewRow(2, "A", 1, 0),
                NewRow(3, "A", NULL, 1)}

\* C9: after a successful move_task_after(id, afterId) of a task after
\* another one, the task has afterId's parent, its position is afterId's
\* position + 1, and no other sibling holds that position.
C9_MoveAfterIsNextSibling ==
    [][(/\ last'.op = "move_task_after" /\ Succeeded(last')
        /\ last'.id # last'.arg)
         => LET task == RowOf(Tasks', last'.id)
                after == RowOf(Tasks', last'.arg)
            IN  /\ task.parent_id = after.parent_id
                /\ task.position = after.position + 1
                /\ \A t \in Group(Tasks', task.parent_id) :
                      t.position = task.position => t.id = task.id]_vars

\* the current_task row of the current workspace
CurrentTask == stores[cur].current

\* C10: a delete through either server leaves the current_task row in
\* place, also when it names a deleted task, and get_current_task on a
\* pointer that names no task answers "not found (may have been deleted)"
\* with no task data, and does not raise.
C10_DanglingCurrentTask ==
    [][/\ last'.op \in {"delete_task", "GET /delete"} => CurrentTask' = CurrentTask
       /\ (/\ last'.op = "get_current_task"
           /\ CurrentTask # {}
           /\ CurrentTask \cap Ids(Tasks) = {})
             => /\ last'.ret = "Current task not found (may have been deleted)"
                /\ last'.out = <<>>
                /\ last'.id = TheValue(CurrentTask)
                /\ CurrentTask' = CurrentTask]_vars

\* get_current_task answering for a pointer to task 1, which was created
\* and is gone
C10_Witness ==
    /\ last.op = "get_current_task"
    /\ last.ret = "Current task not found (may have been deleted)"
    /\ CurrentTask = {1}
    /\ stores[cur].seq >= 1
    /\ 1 \notin Ids(Tasks)

(***************************************************************************)
(* Workspaces: deleting and renaming                                       *)
(***************************************************************************)
WsSucceeded(r) ==
    r.ret \in {"success", "Switched to workspace", "Created workspace",
               "Deleted workspace", "Renamed workspace"}

DeleteWsOps == {"delete_workspace", "POST /api/workspace/delete"}
RenameWsOps == {"rename_workspace", "POST /api/workspace/rename"}

\* C11: delete_workspace(W) with W the current workspace fails and changes
\* no store and not the pointer, and no step of a run of workspace
\* operations leaves the current workspace without the store it had.
C11_CurrentWorkspaceKept ==
    [][/\ (last'.op \in DeleteWsOps /\ last'.arg = cur)
             => /\ ~WsSucceeded(last')
                /\ stores' = stores /\ cur' = cur
       /\ stores[cur].file # "absent" => stores'[cur'].file # "absent"]_vars

\* C12: a successful rename_workspace(old, new) leaves new with exactly the
\* tasks old held and old without a store, moves the pointer to new exactly
\* when it was old and changes no other store; with new invalid, old
\* missing or new existing the call fails, and a failed call changes no
\* store and not the pointer.
C12_RenameWorkspace ==
    [][last'.op \in RenameWsOps
         => LET old == last'.id
                new == last'.arg
                old_path == get_workspace_db_path(old)
            IN  /\ (\/ ~validate_workspace_name(new)
                    \/ ~Exists(old) \/ Exists(new)) => ~WsSucceeded(last')
                /\ ~WsSucceeded(last') => (stores' = stores /\ cur' = cur)
                /\ WsSucceeded(last')
                      => /\ stores'[new].tasks = stores[old_path].tasks
                         /\ stores'[new].seq = stores[old_path].seq
                         /\ stores'[new].current = stores[old_path].current
                         /\ stores'[old_path].file = "absent"
                         /\ cur' = (IF cur = old THEN new ELSE cur)
                         /\ \A w \in Workspaces \ {old_path, new} :
                               stores'[w] = stores[w]]_vars

\* the current workspace default, holding a task, renamed to t-w
C12_Witness ==
    /\ last.op \in RenameWsOps /\ WsSucceeded(last)
    /\ last.id = DEFAULT_WORKSPACE /\ last.arg = TestWorkspace
    /\ cur = TestWorkspace
    /\ Cardinality(stores[TestWorkspace].tasks) = 1
    /\ stores[DEFAULT_WORKSPACE].file = "absent"

(***************************************************************************)
(* Notifications                                                           *)
(***************************************************************************)
Signals(r) == {r.sig[i] : i \in 1..Len(r.sig)}

McpWsOps ==
    {"switch_workspace", "create_workspace", "delete_workspace", "rename_workspace"}

WebWsOps ==
    {"POST /api/workspace/switch", "POST /api/workspace/create",
     "POST /api/workspace/delete", "POST /api/workspace/rename"}

\* C16: a protocol-server tool that has changed a store or the pointer has
\* issued "tasks updated", and a switch_workspace, create_workspace,
\* delete_workspace or rename_workspace that has done so has also issued
\* "workspace changed".
C16_McpSignals ==
    [][(stores' # stores \/ cur' # cur)
         => /\ "tasks_updated" \in Signals(last')
            /\ last'.op \in McpWsOps
                  => "workspace_changed" \in Signals(last')]_vars

\* C17: a web handler that has changed a store or the pointer has broadcast
\* 'tasks_updated', and a workspace switch, create, delete or rename that
\* has done so has also broadcast 'workspace_changed'.
C17_WebSignals ==
    [][(stores' # stores \/ cur' # cur)
         => /\ "tasks_updated" \in Signals(last')
            /\ last'.op \in WebWsOps
                  => "workspace_changed" \in Signals(last')]_vars

(***************************************************************************)
(* The agent                                                               *)
(***************************************************************************)
History == agent.messages

ToolTurns == {i \in 1..Len(History) :
                History[i].role = "assistant" /\ Len(History[i].tool_calls) > 0}

ToolResults == {i \in 1..Len(History) : History[i].role = "tool"}

\* the tool turn at place i is followed by one result per call, in order
Answered(i) ==
    LET calls == History[i].tool_calls
    IN  /\ i + Len(calls) <= Len(History)
        /\ \A j \in 1..Len(calls) :
              /\ History[i + j].role = "tool"
              /\ History[i + j].tool_call_id = calls[j].id

\* run_agent is over and every chat call it made came back asking for tools
AlwaysAsked ==
    /\ agent.pc = "done" /\ agent.text # AgentFailed
    /\ \A i \in 1..Len(History) : History[i].content # "Error during model call"
    /\ Cardinality(ToolTurns) = agent.chats

\* C13: the loop never starts an 11th round; when every response asked for
\* tools, 10 rounds ran, each followed by one provider call, the response
\* of the last call is returned and the history holds the tool turn of
\* each of the 10 rounds with the results of its calls right after it; and
\* every run_agent call comes to its end.
C13_TenRounds ==
    /\ [](/\ agent.iteration <= max_iterations
          /\ AlwaysAsked
                => /\ agent.iteration = 10 /\ agent.chats = 11
                   /\ History[Len(History)] = model_dump(agent.response)
                   /\ Cardinality(ToolTurns) = 11
                   /\ \A i \in ToolTurns : i < Len(History) => Answered(i)
                   /\ Cardinality(ToolResults) + 11 + 2 = Len(History))
    /\ <>(agent.pc = "done")

C13_Witness ==
    /\ AlwaysAsked /\ agent.iteration = 10
    /\ Cardinality(ToolResults) > 10

\* the tool-role message the call is to be answered with
Expected(call) ==
    Message("tool",
            IF call.name = "nope" THEN "Tool not found"
            ELSE IF call.arguments = "bad" THEN "Error: raised"
            ELSE "output",
            call.id, <<>>)

\* C14: in a round the history ends with the assistant turn and, directly
\* after it, one tool message for each call made so far, in the order of
\* the request, an unknown tool and a raising function having their own
\* message; each step makes the next call only, and the provider is called
\* again only after all k calls.
C14_CallsInOrder ==
    /\ [](agent.pc \in {"for", "chat_again"}
            => LET calls == agent.response.tool_calls
                   made == agent.idx - 1
                   n == Len(History)
               IN  /\ made <= Len(calls) /\ n > made
                   /\ History[n - made] = model_dump(agent.response)
                   /\ \A j \in 1..made : History[n - made + j] = Expected(calls[j])
                   /\ agent.pc = "chat_again" => made = Len(calls))
    /\ [][agent.pc = "for"
            => /\ agent'.idx = agent.idx + 1
               /\ agent'.messages =
                     Append(agent.messages,
                            Expected(agent.response.tool_calls[agent.idx]))
               /\ agent'.iteration = agent.iteration]_vars

\* a round of three calls is over: the unknown tool and the raising
\* function were followed by the call that ran
C14_Witness ==
    /\ agent.pc = "chat_again" /\ Len(agent.response.tool_calls) >= 3
    /\ History[Len(History) - 2].content = "Tool not found"
    /\ History[Len(History) - 1].content = "Error: raised"
    /\ History[Len(History)].content = "output"

C28_ToolTurnsAnswered ==
    agent.pc = "done"
      => \A i \in ToolTurns :
           /\ Answered(i)
           /\ LET after == i + Len(History[i].tool_calls) + 1
              IN  after <= Len(History) => History[after].role # "tool"

(***************************************************************************)
(* The notifications of a turn                                             *)
(***************************************************************************)
RECURSIVE Asked(_)
\* the names of the calls the first i messages of the history ask for
Asked(i) ==
    IF i = 0 THEN <<>>
    ELSE Asked(i - 1) \o [j \in 1..Len(History[i].tool_calls) |->
                             History[i].tool_calls[j].name]

\* the names of the calls made so far, one per tool result
Made == SubSeq(Asked(Len(History)), 1, Cardinality(ToolResults))

\* the i-th of the calls made is the first of consecutive calls of a batch
\* tool
BatchStart(made, i) ==
    /\ made[i] \in BATCH_TOOLS
    /\ i = 1 \/ made[i - 1] # made[i]

\* the last of the consecutive calls that the i-th one starts
BatchEnd(made, i) ==
    CHOOSE j \in i..Len(made) :
        /\ \A m \in i..j : made[m] = made[i]
        /\ j = Len(made) \/ made[j + 1] # made[i]

BatchStarts(made) ==
    SelectSeq([i \in 1..Len(made) |-> i], LAMBDA i : BatchStart(made, i))

\* a message that was sent as 'Starting batch'
StartMessage(m) ==
    \/ m.text = "Starting batch"
    \/ m.text = "Completed" /\ m.edits > 0

SingleCall(tool_name) ==
    /\ agent.callbacks /\ agent.pc = "done" /\ Made = <<tool_name>>
    /\ \A n \in 1..Len(bot.outbox) : bot.outbox[n].fate = "delivered"

Notice(text, tool, count) ==
    [text |-> text, tool |-> tool, count |-> count, fate |-> "delivered",
     edits |-> 1]

\* C19 as stated: a single toggle_task call is told by one 'Calling tool'
\* message edited into 'Tool execution completed'.
C19_AsStated ==
    SingleCall("toggle_task")
      => bot.outbox = <<Notice("Tool execution completed", "toggle_task", 0)>>

\* C19: a single toggle_task call is told as a batch of one, by one
\* 'Starting batch' message edited once into the summary of 1 call and by
\* no 'Calling tool' message; a single call of a tool outside the batch
\* tools, such as list_tasks, is told by one 'Calling tool' message edited
\* once into 'Tool execution completed'.
C19_SingleCalls ==
    /\ SingleCall("toggle_task")
          => bot.outbox = <<Notice("Completed", "toggle_task", 1)>>
    /\ SingleCall("list_tasks")
          => bot.outbox = <<Notice("Tool execution completed", "list_tasks", 0)>>
    /\ \A n \in 1..Len(bot.outbox) :
          bot.outbox[n].tool = "toggle_task"
             => bot.outbox[n].text \in {"Starting batch", "Completed"}

C19_Witness ==
    /\ SingleCall("toggle_task")
    /\ bot.outbox = <<Notice("Completed", "toggle_task", 1)>>

(***************************************************************************)
(* The allowlist                                                           *)
(***************************************************************************)
Listed == TheValue(bot.allowed_user_ids)

Logged == {bot.warnings[i] : i \in 1..Len(bot.warnings)}

\* C20: with an allowlist, a handler's check answers true exactly for the
\* listed ids, a refused id that was not logged yet is logged at that
\* encounter and one that was is not logged again, so that no id is in the
\* log twice; with no allowlist every id is allowed and nothing is logged;
\* the allowlist itself never changes.
C20_Allowlist ==
    /\ [](IF bot.allowed_user_ids = None
          THEN /\ bot.warnings = <<>>
               /\ bot.handled.command # "" => bot.handled.allowed
          ELSE /\ bot.handled.command # ""
                     => /\ bot.handled.allowed <=> bot.handled.user_id \in Listed
                        /\ ~bot.handled.allowed => bot.handled.user_id \in Logged
               /\ Logged \cap Listed = {}
               /\ Cardinality(Logged) = Len(bot.warnings))
    /\ [][/\ bot'.allowed_user_ids = bot.allowed_user_ids
          /\ bot'.warnings =
                IF \/ bot.allowed_user_ids = None
                   \/ bot'.handled.user_id \in Listed \cup Logged
                THEN bot.warnings
                ELSE Append(bot.warnings, bot'.handled.user_id)]_vars

\* the user logged first comes back after another one was logged
C20_Witness ==
    /\ Len(bot.warnings) = 2
    /\ bot.handled.user_id = bot.warnings[1]
    /\ ~bot.handled.allowed
    /\ Listed # {}

\* C21: with an allowlist, a command or a text message of a user who is not
\* listed is refused and leaves the histories, the language preferences,
\* the dump files and the turns as they were; so every turn underway, every
\* stored preference and every dump file is a listed user's.
C21_RefusedChangesNothing ==
    /\ [](\A turn \in TurnIds :
            tg.turns[turn].pc # "idle" => tg.turns[turn].user_id \in Listed)
    /\ [](\A user_id \in UserIds \ Listed : tg.user_config[user_id] = NoLanguage)
    /\ [](\A i \in 1..Len(tg.dumps) : tg.dumps[i].user_id \in Listed)
    /\ [][bot' # bot /\ bot'.handled.user_id \notin Listed
            => ~bot'.handled.allowed /\ tg' = tg]_vars

\* a user who is not listed sends /language to a chat that has a history,
\* a preference and a dump file
C21_Witness ==
    /\ bot.handled.command = "/language"
    /\ bot.handled.user_id \notin Listed
    /\ ~bot.handled.allowed
    /\ tg.user_conversations[1] # NoHistory
    /\ \E user_id \in Listed : tg.user_config[user_id] # NoLanguage
    /\ tg.dumps # <<>>

\* C29: the system message of the history a turn sends to the model carries
\* the enforcement sentence of the language the user has when the turn
\* runs, and none when the user has no language.
C29_SystemMessageCurrent ==
    [][\A turn \in TurnIds :
          tg.turns[turn].pc = "run" /\ tg'.turns[turn].pc = "chat"
          => tg'.lists[tg'.turns[turn].messages][1]
               = SystemMessage(get_user_language(tg, tg.turns[turn].user_id))]_vars

\* a history holds the user message, the reply, of a text message
Asks(list, query) == \E i \in 1..Len(list) : list[i] = UserMessage(query)

Replies(list, query) == \E i \in 1..Len(list) : list[i] = AssistantMessage(query)

C25_StaysATree ==
    \A t \in Tasks : t \notin Descendants(Tasks, t.id)

(***************************************************************************)
(* Ids of no task, stores without tables                                   *)
(***************************************************************************)
IdOps ==
    {"update_task", "toggle_task", "delete_task", "set_color", "get_task",
     "set_current_task", "move_task", "move_task_as_child", "move_task_after"}

\* C22: a protocol-server operation called with the id of no task of the
\* current workspace answers with a not-found text, raises nothing and
\* leaves every store as it was.
C22_MissingIdReported ==
    [][(last'.op \in IdOps /\ last'.id \notin Ids(stores[cur].tasks))
         => /\ last'.ret \in {"Task not found", "Error: Task not found"}
            /\ stores' = stores]_vars

\* C23: no task operation of the protocol server fails for want of the
\* tables, whatever came before it.
C23_SchemaCreatedLazily ==
    last.op \in IdOps \cup AddOps => last.ret # "OperationalError"

(***************************************************************************)
(* Handlers side by side                                                   *)
(***************************************************************************)
\* the adds of the two threads are over and each read the largest position
\* before the other inserted
Overlapped(a, b) ==
    /\ threads[a].pc = "done" /\ threads[b].pc = "done"
    /\ threads[a].ws = threads[b].ws
    /\ threads[a].parent_id = threads[b].parent_id
    /\ threads[a].seen < threads[b].task_id
    /\ threads[b].seen < threads[a].task_id

\* C26: two adds to one sibling group that ran side by side gave their
\* tasks different positions.
C26_DistinctPositions ==
    \A a \in ThreadIds : \A b \in ThreadIds \ {a} :
        Overlapped(a, b)
          => RowOf(stores[threads[a].ws].tasks, threads[a].task_id).position
               # RowOf(stores[threads[a].ws].tasks, threads[b].task_id).position

\* C27: no step takes away the store of the workspace the pointer names, so
\* that whenever no switch is between its write of the pointer and its
\* init_db the current workspace has its store.
C27_CurrentStoreKept ==
    /\ []((\A th \in ThreadIds : threads[th].pc # "init") => HasSchema(stores[cur]))
    /\ [][stores[cur].file # "absent" => stores'[cur].file # "absent"]_vars

(***************************************************************************)
(* The tool registry                                                       *)
(***************************************************************************)
\* C24: once unregister(name) has answered true, no category's index holds
\* the name and no category listed by get_all_categories is without tools.
C24_UnregisterCleansIndex ==
    [][(last'.op = "unregister" /\ last'.ret = "True")
         => \A category \in get_all_categories(registry') :
              LET list == get_tools_by_category(registry', category)
              IN  last'.out[1] \notin Names(list) /\ list # <<>>]_vars
====
